---- MODULE Spec2Model ----
(***************************************************************************)
(* The player-data pipeline of playersb-site: the scripts that write       *)
(* data/players.json (merge.mjs, fetch-players, sync-players-from-fantasy) *)
(* and the pure functions they are built from; the identity slug functions *)
(* on their own; the fantasy picker with its per-90 rates and scores; the  *)
(* fetch scripts, request by request; generate-all; and the scripts that   *)
(* work on the site's files (resolve-generated-conflicts, generate-core,   *)
(* generate-players, generate-sitemap and the quality gate).  Each part    *)
(* has its own specification and leaves the variables of the others idle.  *)
(*                                                                         *)
(* JavaScript values are records [t, n, s]: t is the type tag, n the       *)
(* number (the sign for an infinity), s the characters of a string.        *)
(* A string is a sequence of one-character strings.  A JSON object is a    *)
(* function from keys to values; a key that is absent reads as undefined.  *)
(***************************************************************************)
EXTENDS Integers, Sequences, FiniteSets, TLC

VARIABLES playersFile, before, last, pc, slugRun, scoreRun, fetchRun, buildRun, siteRun

vars == <<playersFile, before, last, pc, slugRun, scoreRun, fetchRun, buildRun, siteRun>>

\* data/players.json and the workflow that updates it
pipelineVars == <<playersFile, before, last, pc>>

\* a part of the program that a specification leaves out stays idle
Idle == [op |-> "idle"]

----------------------------------------------------------------------------
(* Bounds of the model *)

\* the longest source list and the longest scorer feed one run reads
MaxRows == 2

----------------------------------------------------------------------------
(* JavaScript values *)

JV(t, n, s) == [t |-> t, n |-> n, s |-> s]

Undef == JV("undefined", 0, <<>>)

Null == JV("null", 0, <<>>)

NaN == JV("nan", 0, <<>>)

Num(n) == JV("number", n, <<>>)

\* +Infinity (sign 1) or -Infinity (sign -1)
Inf(sign) == JV("infinity", sign, <<>>)

Str(s) == JV("string", 0, s)

\* obj.key, undefined when the key is absent
Get(obj, key) == IF key \in DOMAIN obj THEN obj[key] ELSE Undef

\* ToBoolean
Truthy(v) ==
  CASE v.t = "undefined" -> FALSE
    [] v.t = "null" -> FALSE
    [] v.t = "nan" -> FALSE
    [] v.t = "number" -> v.n # 0
    [] v.t = "string" -> v.s # <<>>
    [] OTHER -> TRUE

\* a || b
OrElse(a, b) == IF Truthy(a) THEN a ELSE b

\* a ?? b
Coalesce(a, b) == IF a.t \in {"undefined", "null"} THEN b ELSE a

----------------------------------------------------------------------------
(* Characters and strings *)

LowerLetters ==
  <<"a","b","c","d","e","f","g","h","i","j","k","l","m",
    "n","o","p","q","r","s","t","u","v","w","x","y","z">>

UpperLetters ==
  <<"A","B","C","D","E","F","G","H","I","J","K","L","M",
    "N","O","P","Q","R","S","T","U","V","W","X","Y","Z">>

DigitChars == <<"0","1","2","3","4","5","6","7","8","9">>

Range(seq) == {seq[i] : i \in 1..Len(seq)}

IndexIn(seq, c) == CHOOSE i \in 1..Len(seq) : seq[i] = c

LowerSet == Range(LowerLetters)

UpperSet == Range(UpperLetters)

DigitSet == Range(DigitChars)

IsSpace(c) == c = " "

\* String.prototype.toLowerCase, one character
LowerChar(c) ==
  IF c \in UpperSet THEN LowerLetters[IndexIn(UpperLetters, c)]
  ELSE IF c = "É" THEN "é"
  ELSE c

toLowerCase(s) == [i \in 1..Len(s) |-> LowerChar(s[i])]

RECURSIVE TrimStart(_)
TrimStart(s) ==
  IF s # <<>> /\ IsSpace(Head(s)) THEN TrimStart(Tail(s)) ELSE s

RECURSIVE TrimEnd(_)
TrimEnd(s) ==
  IF s # <<>> /\ IsSpace(s[Len(s)]) THEN TrimEnd(SubSeq(s, 1, Len(s) - 1)) ELSE s

\* String.prototype.trim
trim(s) == TrimEnd(TrimStart(s))

RECURSIVE NatToDigits(_)
NatToDigits(n) ==
  IF n < 10 THEN <<DigitChars[n + 1]>>
  ELSE NatToDigits(n \div 10) \o <<DigitChars[(n % 10) + 1]>>

RECURSIVE DigitsToNat(_)
DigitsToNat(s) ==
  IF s = <<>> THEN 0
  ELSE 10 * DigitsToNat(SubSeq(s, 1, Len(s) - 1)) + (IndexIn(DigitChars, s[Len(s)]) - 1)

AllDigits(s) == s # <<>> /\ \A i \in 1..Len(s) : s[i] \in DigitSet

\* String(value)
ToStringJS(v) ==
  CASE v.t = "string" -> v.s
    [] v.t = "number" ->
         IF v.n < 0 THEN <<"-">> \o NatToDigits(0 - v.n) ELSE NatToDigits(v.n)
    [] v.t = "undefined" -> <<"u","n","d","e","f","i","n","e","d">>
    [] v.t = "null" -> <<"n","u","l","l">>
    [] v.t = "nan" -> <<"N","a","N">>
    [] OTHER ->
         IF v.n < 0 THEN <<"-","I","n","f","i","n","i","t","y">>
         ELSE <<"I","n","f","i","n","i","t","y">>

\* the number a string converts to (StringToNumber): decimal integers,
\* the empty string and the Infinity literals; anything else is NaN
StringToNumber(s) ==
  LET w == trim(s) IN
  IF w = <<>> THEN Num(0)
  ELSE IF AllDigits(w) THEN Num(DigitsToNat(w))
  ELSE IF Head(w) \in {"-", "+"} /\ AllDigits(Tail(w))
    THEN Num((IF Head(w) = "-" THEN -1 ELSE 1) * DigitsToNat(Tail(w)))
  ELSE IF w \in {<<"I","n","f","i","n","i","t","y">>, <<"+","I","n","f","i","n","i","t","y">>}
    THEN Inf(1)
  ELSE IF w = <<"-","I","n","f","i","n","i","t","y">> THEN Inf(-1)
  ELSE NaN

\* Number(value)
ToNumberJS(v) ==
  CASE v.t = "number" -> v
    [] v.t = "infinity" -> v
    [] v.t = "nan" -> v
    [] v.t = "null" -> Num(0)
    [] v.t = "undefined" -> NaN
    [] OTHER -> StringToNumber(v.s)

\* Number.isFinite
IsFinite(v) == v.t = "number"

----------------------------------------------------------------------------
(* Helpers shared by sync-players-from-fantasy and fetch-players *)

\* String(value ?? "").trim()
safeStr(value) == trim(ToStringJS(Coalesce(value, Str(<<>>))))

IdChars == LowerSet \cup DigitSet \cup {"-"}

\* .replace(/[^a-z0-9-]/g, "-")
ReplaceNonIdChars(s) == [i \in 1..Len(s) |-> IF s[i] \in IdChars THEN s[i] ELSE "-"]

\* .replace(/-+/g, "-")
RECURSIVE CollapseHyphens(_)
CollapseHyphens(s) ==
  IF Len(s) < 2 THEN s
  ELSE IF s[1] = "-" /\ s[2] = "-" THEN CollapseHyphens(Tail(s))
  ELSE <<s[1]>> \o CollapseHyphens(Tail(s))

\* .replace(/^-|-$/g, "")
StripHyphenEnds(s) ==
  LET a == IF s # <<>> /\ Head(s) = "-" THEN Tail(s) ELSE s
  IN IF a # <<>> /\ a[Len(a)] = "-" THEN SubSeq(a, 1, Len(a) - 1) ELSE a

\* sanitizeId with the last two replacements in the other order
sanitizeIdStripFirst(raw) ==
  CollapseHyphens(StripHyphenEnds(ReplaceNonIdChars(toLowerCase(safeStr(raw)))))

sanitizeId(raw) ==
  StripHyphenEnds(CollapseHyphens(ReplaceNonIdChars(toLowerCase(safeStr(raw)))))

\* toNumber(value, fallback): Number(value) when finite, else the fallback
toNumber(value, fallback) ==
  LET n == ToNumberJS(value) IN IF IsFinite(n) THEN n ELSE fallback

\* Math.max of two finite numbers
MathMax(a, b) == IF a.n >= b.n THEN a ELSE b

----------------------------------------------------------------------------
(* String.prototype.localeCompare: the root collation on the characters   *)
(* the model uses.  Primary weights order space < punctuation < digits <   *)
(* letters; an accent differs at the second level, case at the third       *)
(* (lower case first).  Two strings compare equal only when all three      *)
(* levels agree.                                                           *)

BaseChar(c) == IF LowerChar(c) = "é" THEN "e" ELSE LowerChar(c)

PrimaryWeight(c) ==
  LET b == BaseChar(c) IN
  CASE b = " " -> 1
    [] b = "_" -> 2
    [] b = "-" -> 3
    [] b = "!" -> 4
    [] b = "/" -> 5
    [] b \in DigitSet -> 10 + IndexIn(DigitChars, b)
    [] b \in LowerSet -> 30 + IndexIn(LowerLetters, b)
    [] OTHER -> 9

SecondaryWeight(c) == IF LowerChar(c) = "é" THEN 1 ELSE 0

TertiaryWeight(c) == IF c \in UpperSet \cup {"É"} THEN 1 ELSE 0

\* -1, 0 or 1: lexicographic comparison of two sequences of integers
RECURSIVE CompareSeq(_, _)
CompareSeq(a, b) ==
  IF a = <<>> /\ b = <<>> THEN 0
  ELSE IF a = <<>> THEN -1
  ELSE IF b = <<>> THEN 1
  ELSE IF Head(a) < Head(b) THEN -1
  ELSE IF Head(a) > Head(b) THEN 1
  ELSE CompareSeq(Tail(a), Tail(b))

localeCompare(a, b) ==
  LET p == CompareSeq([i \in 1..Len(a) |-> PrimaryWeight(a[i])],
                      [i \in 1..Len(b) |-> PrimaryWeight(b[i])])
      q == CompareSeq([i \in 1..Len(a) |-> SecondaryWeight(a[i])],
                      [i \in 1..Len(b) |-> SecondaryWeight(b[i])])
      r == CompareSeq([i \in 1..Len(a) |-> TertiaryWeight(a[i])],
                      [i \in 1..Len(b) |-> TertiaryWeight(b[i])])
  IN IF p # 0 THEN p ELSE IF q # 0 THEN q ELSE r

\* Array.prototype.sort is stable: an element goes after every element
\* that does not compare greater than it
\* a sort that is not stable: an element goes before its equals
RECURSIVE InsertBeforeEqual(_, _)
InsertBeforeEqual(sorted, p) ==
  IF sorted = <<>> THEN <<p>>
  ELSE IF localeCompare(Head(sorted).name.s, p.name.s) >= 0 THEN <<p>> \o sorted
  ELSE <<Head(sorted)>> \o InsertBeforeEqual(Tail(sorted), p)

RECURSIVE InsertByName(_, _)
InsertByName(sorted, p) ==
  IF sorted = <<>> THEN <<p>>
  ELSE IF localeCompare(Head(sorted).name.s, p.name.s) > 0 THEN <<p>> \o sorted
  ELSE <<Head(sorted)>> \o InsertByName(Tail(sorted), p)

RECURSIVE SortByName(_)
SortByName(list) ==
  IF list = <<>> THEN <<>>
  ELSE InsertByName(SortByName(SubSeq(list, 1, Len(list) - 1)), list[Len(list)])

----------------------------------------------------------------------------
(* sync-players-from-fantasy *)

NA == <<"N","/","A">>

Unknown == <<"U","n","k","n","o","w","n">>

MinutesPerMatch == 90

CounterFields == {"minutes", "goals", "assists", "shots", "shotsOnTarget"}

normalizePlayerFromFantasy(row) ==
  LET playedMatches == toNumber(Get(row, "playedMatches"), Num(0))
      minutesEstimate ==
        toNumber(Get(row, "minutesEstimate"), Num(playedMatches.n * MinutesPerMatch))
  IN [id |-> Str(sanitizeId(OrElse(Get(row, "id"), Get(row, "name")))),
      name |-> Str(safeStr(Get(row, "name"))),
      position |-> OrElse(Str(safeStr(Get(row, "position"))), Str(NA)),
      team |-> OrElse(Str(safeStr(Get(row, "team"))), Str(Unknown)),
      minutes |-> minutesEstimate,
      goals |-> toNumber(Get(row, "goals"), Num(0)),
      assists |-> toNumber(Get(row, "assists"), Num(0)),
      shots |-> toNumber(Get(row, "shots"), Num(0)),
      shotsOnTarget |-> toNumber(Get(row, "shotsOnTarget"), Num(0))]

\* the record mergePlayers builds for one element of the existing list
normalizeExisting(player) ==
  [id |-> Str(sanitizeId(OrElse(Get(player, "id"), Get(player, "name")))),
   name |-> Str(safeStr(Get(player, "name"))),
   position |-> OrElse(Str(safeStr(Get(player, "position"))), Str(NA)),
   team |-> OrElse(Str(safeStr(Get(player, "team"))), Str(Unknown)),
   minutes |-> toNumber(Get(player, "minutes"), Num(0)),
   goals |-> toNumber(Get(player, "goals"), Num(0)),
   assists |-> toNumber(Get(player, "assists"), Num(0)),
   shots |-> toNumber(Get(player, "shots"), Num(0)),
   shotsOnTarget |-> toNumber(Get(player, "shotsOnTarget"), Num(0))]

\* The Map byId is the sequence of its values in insertion order.
MapHas(byId, id) == \E i \in 1..Len(byId) : byId[i].id = id

MapIndex(byId, id) == CHOOSE i \in 1..Len(byId) : byId[i].id = id

MapGet(byId, id) == byId[MapIndex(byId, id)]

\* Map.prototype.set: a present key keeps its place
MapSet(byId, id, value) ==
  IF MapHas(byId, id) THEN [byId EXCEPT ![MapIndex(byId, id)] = value]
  ELSE Append(byId, value)

\* the loop over existingPlayers with the name test of the incoming loop
loadExistingNamedOnly(byId, player) ==
  LET rec == normalizeExisting(player)
  IN IF ~Truthy(rec.id) \/ ~Truthy(rec.name) THEN byId ELSE MapSet(byId, rec.id, rec)

\* one iteration of the loop over existingPlayers
loadExisting(byId, player) ==
  LET rec == normalizeExisting(player)
  IN IF ~Truthy(rec.id) THEN byId ELSE MapSet(byId, rec.id, rec)

\* a merge that adds the counters up
combineSummed(prev, next) ==
  [prev EXCEPT
     !.name = OrElse(prev.name, next.name),
     !.position = IF next.position # Str(NA) THEN next.position ELSE prev.position,
     !.team = IF next.team # Str(Unknown) THEN next.team ELSE prev.team,
     !.minutes = Num(prev.minutes.n + next.minutes.n),
     !.goals = Num(prev.goals.n + next.goals.n),
     !.assists = Num(prev.assists.n + next.assists.n),
     !.shots = Num(prev.shots.n + next.shots.n),
     !.shotsOnTarget = Num(prev.shotsOnTarget.n + next.shotsOnTarget.n)]

\* a merge that lets the incoming row overwrite name, position and team
combineOverwriting(prev, next) ==
  [prev EXCEPT
     !.name = next.name,
     !.position = next.position,
     !.team = next.team,
     !.minutes = MathMax(prev.minutes, next.minutes),
     !.goals = MathMax(prev.goals, next.goals),
     !.assists = MathMax(prev.assists, next.assists),
     !.shots = MathMax(prev.shots, next.shots),
     !.shotsOnTarget = MathMax(prev.shotsOnTarget, next.shotsOnTarget)]

\* the object that replaces prev when the incoming row has its id
combine(prev, next) ==
  [prev EXCEPT
     !.name = OrElse(prev.name, next.name),
     !.position = IF next.position # Str(NA) THEN next.position ELSE prev.position,
     !.team = IF next.team # Str(Unknown) THEN next.team ELSE prev.team,
     !.minutes = MathMax(prev.minutes, next.minutes),
     !.goals = MathMax(prev.goals, next.goals),
     !.assists = MathMax(prev.assists, next.assists),
     !.shots = MathMax(prev.shots, next.shots),
     !.shotsOnTarget = MathMax(prev.shotsOnTarget, next.shotsOnTarget)]

\* one iteration of the loop over fantasyPlayers
mergeRow(byId, row) ==
  LET next == normalizePlayerFromFantasy(row)
  IN IF ~Truthy(next.id) \/ ~Truthy(next.name) THEN byId
     ELSE IF ~MapHas(byId, next.id) THEN MapSet(byId, next.id, next)
     ELSE MapSet(byId, next.id, combine(MapGet(byId, next.id), next))

RECURSIVE LoadAll(_, _)
LoadAll(byId, existingPlayers) ==
  IF existingPlayers = <<>> THEN byId
  ELSE LoadAll(loadExisting(byId, Head(existingPlayers)), Tail(existingPlayers))

RECURSIVE MergeAll(_, _)
MergeAll(byId, fantasyPlayers) ==
  IF fantasyPlayers = <<>> THEN byId
  ELSE MergeAll(mergeRow(byId, Head(fantasyPlayers)), Tail(fantasyPlayers))

mergePlayers(existingPlayers, fantasyPlayers) ==
  SortByName(MergeAll(LoadAll(<<>>, existingPlayers), fantasyPlayers))

----------------------------------------------------------------------------
(* JSON.stringify followed by JSON.parse: what a script reads back from a  *)
(* file another script wrote.  A property whose value is undefined is      *)
(* left out; NaN and the infinities are written as null.                   *)

JsonValue(v) == IF v.t \in {"nan", "infinity"} THEN Null ELSE v

JsonObject(obj) ==
  [k \in {key \in DOMAIN obj : obj[key].t # "undefined"} |-> JsonValue(obj[k])]

JsonArray(list) == [i \in 1..Len(list) |-> JsonObject(list[i])]

----------------------------------------------------------------------------
(* fetch-players *)

\* normalizePlayers(raw): the players array of the source, or the source
\* itself when it is an array, or nothing
normalizePlayers(source) ==
  IF source.kind \in {"object", "array"} THEN source.rows ELSE <<>>

\* Number(a ?? b ?? 0) || 0
NumberOrZero(a, b) == OrElse(ToNumberJS(Coalesce(Coalesce(a, b), Num(0))), Num(0))

normalizeRecord(record) ==
  LET id == Str(sanitizeId(OrElse(OrElse(OrElse(Get(record, "id"), Get(record, "slug")),
                                         Get(record, "code")), Get(record, "name"))))
      name == Str(safeStr(OrElse(OrElse(Get(record, "name"), Get(record, "full_name")),
                                 Get(record, "fullName"))))
      position == Str(safeStr(OrElse(OrElse(Get(record, "position"), Get(record, "pos")),
                                     Get(record, "role"))))
      team == Str(safeStr(OrElse(OrElse(OrElse(Get(record, "team"), Get(record, "club")),
                                        Get(record, "currentTeam")), Get(record, "team_name"))))
  IN [id |-> OrElse(id, Str(sanitizeId(name))),
      name |-> name,
      position |-> position,
      team |-> team,
      minutes |-> NumberOrZero(Get(record, "minutes"), Get(record, "mins")),
      goals |-> NumberOrZero(Get(record, "goals"), Get(record, "gls")),
      assists |-> NumberOrZero(Get(record, "assists"), Get(record, "ast")),
      shots |-> NumberOrZero(Get(record, "shots"), Get(record, "sh")),
      shotsOnTarget |-> NumberOrZero(Get(record, "shotsOnTarget"), Get(record, "sot"))]

\* .filter((p) => p.id && p.name)
KeepsRecord(p) == Truthy(p.id) /\ Truthy(p.name)

\* .map((p) => ({...p, position: p.position || "N/A", team: p.team || "Unknown"}))
withDefaults(p) ==
  [p EXCEPT !.position = OrElse(p.position, Str(NA)),
            !.team = OrElse(p.team, Str(Unknown))]

RECURSIVE FilterRecords(_)
FilterRecords(list) ==
  IF list = <<>> THEN <<>>
  ELSE IF KeepsRecord(Head(list)) THEN <<Head(list)>> \o FilterRecords(Tail(list))
  ELSE FilterRecords(Tail(list))

cleanPlayers(players) ==
  LET normalized == [i \in 1..Len(players) |-> normalizeRecord(players[i])]
      kept == FilterRecords(normalized)
  IN [i \in 1..Len(kept) |-> withDefaults(kept[i])]

\* existing?.competitions || {} and existing?.history || []: an absent
\* value becomes the empty container
Passthrough(value, empty) == IF value = "absent" THEN empty ELSE value

\* mergeWithExisting starting competitions and history afresh
mergeWithExistingReset(existing, nextPlayers, now) ==
  [generated_at |-> now, players |-> nextPlayers, competitions |-> "{}", history |-> "[]"]

mergeWithExisting(existing, nextPlayers, now) ==
  [generated_at |-> now,
   players |-> nextPlayers,
   competitions |-> Passthrough(existing.competitions, "{}"),
   history |-> Passthrough(existing.history, "[]")]

----------------------------------------------------------------------------
(* merge.mjs *)

CombiningAcute == "U+0301"

\* String.prototype.normalize("NFKD"), one character
DecomposeChar(c) ==
  CASE c = "é" -> <<"e", CombiningAcute>>
    [] c = "É" -> <<"E", CombiningAcute>>
    [] OTHER -> <<c>>

RECURSIVE normalizeNFKD(_)
normalizeNFKD(s) ==
  IF s = <<>> THEN <<>> ELSE DecomposeChar(Head(s)) \o normalizeNFKD(Tail(s))

WordChars == LowerSet \cup UpperSet \cup DigitSet \cup {"_"}

\* .replace(/[^\w\s-]/g, "")
RECURSIVE RemoveNonWord(_)
RemoveNonWord(s) ==
  IF s = <<>> THEN <<>>
  ELSE IF Head(s) \in WordChars \/ IsSpace(Head(s)) \/ Head(s) = "-"
    THEN <<Head(s)>> \o RemoveNonWord(Tail(s))
  ELSE RemoveNonWord(Tail(s))

\* .replace(/\s+/g, "-")
RECURSIVE SpacesToHyphen(_)
SpacesToHyphen(s) ==
  IF s = <<>> THEN <<>>
  ELSE IF IsSpace(Head(s))
    THEN <<"-">> \o SpacesToHyphen(TrimStart(s))
  ELSE <<Head(s)>> \o SpacesToHyphen(Tail(s))

slugify(s) ==
  CollapseHyphens(SpacesToHyphen(toLowerCase(trim(RemoveNonWord(
    normalizeNFKD(ToStringJS(OrElse(s, Str(<<>>)))))))))

ensureId(p) ==
  [id |-> OrElse(Get(p, "id"), Str(slugify(Get(p, "name")))),
   name |-> Get(p, "name"),
   position |-> OrElse(Get(p, "position"), Str(<<>>)),
   team |-> OrElse(Get(p, "team"), Str(<<>>)),
   minutes |-> ToNumberJS(OrElse(Get(p, "minutes"), Num(0))),
   goals |-> Coalesce(Get(p, "goals"), Null),
   assists |-> Coalesce(Get(p, "assists"), Null),
   shots |-> Coalesce(Get(p, "shots"), Null),
   shotsOnTarget |-> Coalesce(Get(p, "shotsOnTarget"), Null)]

ensureIds(players) == [i \in 1..Len(players) |-> ensureId(players[i])]

\* the payload merge.mjs writes to data/players.json
mergeMain(seed, competitions, history, now) ==
  [generated_at |-> now,
   players |-> JsonArray(ensureIds(seed)),
   competitions |-> Passthrough(competitions, "{}"),
   history |-> Passthrough(history, "[]")]

----------------------------------------------------------------------------
(* The inputs the scripts read *)

Al == <<"A","l">>

Bo == <<"B","o">>

FW == <<"F","W">>

MF == <<"M","F">>

\* the players of a seed file, as merge.mjs reads them
Seeds ==
  { <<>>,
    << [name |-> Str(Al), position |-> Str(FW), team |-> Str(<<"T">>),
        minutes |-> Num(90), goals |-> Num(1), assists |-> Num(2),
        shots |-> Num(3), shotsOnTarget |-> Num(1)],
       [id |-> Str(<<"b","o">>), team |-> Str(<<"T">>)] >>,
    << [id |-> Str(<<"9">>), goals |-> Num(1)],
       [name |-> Str(Al), position |-> Str(MF)] >>,
    << [id |-> Str(<<"b">>), name |-> Str(Bo), goals |-> Num(-1)],
       [id |-> Str(<<"9">>), name |-> Str(Al)],
       [id |-> Str(<<"a","l">>), name |-> Str(Al), minutes |-> Str(<<"x">>)] >> }

\* rows of data/fantasy.json, in the shape normalizeScorer gives them
\* (id, name, position, team, goals, assists, playedMatches,
\* minutesEstimate), some with the counters of a PlayerRecord added
FeedRows ==
  { [id |-> Null, name |-> Str(Al), position |-> Str(FW), team |-> Str(<<>>),
     goals |-> Num(2), assists |-> Num(0), playedMatches |-> Num(1),
     minutesEstimate |-> Num(90)],
    [id |-> Null, name |-> Str(Al), position |-> Str(<<>>), team |-> Str(<<"T">>),
     goals |-> Num(1), assists |-> Num(3), playedMatches |-> Num(0),
     minutesEstimate |-> Null, minutes |-> Num(500), shots |-> Num(4)],
    [id |-> Str(<<"a","l">>), name |-> Str(<<" ">>), position |-> Str(MF),
     team |-> Str(<<>>), goals |-> Num(9), assists |-> Num(9),
     playedMatches |-> Num(9), minutesEstimate |-> Num(810)],
    [id |-> Str(<<"b","o">>), name |-> Str(Al), position |-> Str(MF), team |-> Str(<<>>),
     goals |-> Str(<<"x">>), assists |-> Num(1), playedMatches |-> Num(2),
     shots |-> Num(1), shotsOnTarget |-> Num(1)] }

\* rows of the free players source, as normalizeRecord probes them
SourceRows ==
  { [id |-> Str(<<"!">>), slug |-> Str(<<"a","l">>), full_name |-> Str(Bo),
     pos |-> Str(FW), club |-> Str(<<"T">>), mins |-> Str(<<"9","0">>), gls |-> Num(1)],
    [name |-> Str(Bo), minutes |-> Inf(1), goals |-> Num(-2), assists |-> Str(<<"x">>)],
    [name |-> Str(<<>>), goals |-> Num(4)],
    [id |-> Str(<<"A","L">>), name |-> Str(Al), position |-> Str(MF),
     team |-> Str(<<"T">>), minutes |-> Num(180), goals |-> Num(3), assists |-> Num(1),
     shots |-> Num(5), shotsOnTarget |-> Num(2)] }

SeqsUpTo(S, n) == UNION {[1..k -> S] : k \in 0..n}

\* data/fantasy.json as sync-players-from-fantasy finds it
FantasyFiles ==
  {[kind |-> k, rows |-> <<>>] : k \in {"missing", "invalid", "noPlayers"}}
    \cup {[kind |-> "rows", rows |-> r] : r \in SeqsUpTo(FeedRows, MaxRows)}

\* what fetch-players gets from its source: a failure, or parsed JSON
Sources ==
  {[kind |-> k, rows |-> <<>>] : k \in {"error", "other"}}
    \cup {[kind |-> "array", rows |-> r] : r \in SeqsUpTo(SourceRows, MaxRows)}
    \cup {[kind |-> "object", rows |-> r] : r \in SeqsUpTo(SourceRows, 1)}

----------------------------------------------------------------------------
(* One run of the update workflow on the file merge.mjs seeded: the        *)
(* workflow runs fetch-players, then sync-players-from-fantasy, whatever   *)
(* the exit status of fetch-players.  playersFile is data/players.json;    *)
(* before is the file as the last script found it; last records the last   *)
(* script run: what it read, whether it wrote the file, its exit status;   *)
(* pc is the step the workflow is at.                                      *)

Run(op, input, dryRun, wrote, exit) ==
  [op |-> op, kind |-> input.kind, rows |-> input.rows, dryRun |-> dryRun,
   wrote |-> wrote, exit |-> exit]

Init ==
  \E seed \in Seeds, passthrough \in {"absent", "data"} :
    /\ playersFile = mergeMain(seed, passthrough, passthrough, 0)
    /\ before = playersFile
    /\ last = Run("merge", [kind |-> "seed", rows |-> seed], FALSE, TRUE, 0)
    /\ pc = "fetch"
    /\ slugRun = Idle /\ scoreRun = Idle /\ fetchRun = Idle /\ buildRun = Idle
    /\ siteRun = Idle

\* main of fetch-players
FetchPlayers(source, dryRun) ==
  LET records == normalizePlayers(source)
      cleaned == cleanPlayers(records)
      next == mergeWithExisting(playersFile, JsonArray(cleaned), 1)
  IN /\ pc = "fetch"
     /\ pc' = "sync"
     /\ before' = playersFile
     /\ IF source.kind = "error"
          THEN /\ playersFile' = playersFile
               /\ last' = Run("fetch", source, dryRun, FALSE, 1)
        ELSE IF dryRun
          THEN /\ playersFile' = playersFile
               /\ last' = Run("fetch", source, dryRun, FALSE, 0)
        ELSE /\ playersFile' = next
             /\ last' = Run("fetch", source, dryRun, TRUE, 0)
     /\ UNCHANGED <<slugRun, scoreRun, fetchRun, buildRun, siteRun>>

\* if (!fantasyPlayers.length) return
noFantasyPlayersIgnored(fantasyPlayers) == FALSE

noFantasyPlayers(fantasyPlayers) == Len(fantasyPlayers) = 0

\* main of sync-players-from-fantasy
SyncPlayers(fantasy) ==
  LET fantasyPlayers == IF fantasy.kind = "rows" THEN fantasy.rows ELSE <<>>
      mergedPlayers == mergePlayers(playersFile.players, fantasyPlayers)
  IN /\ pc = "sync"
     /\ pc' = "done"
     /\ before' = playersFile
     /\ IF fantasy.kind = "invalid"
          THEN /\ playersFile' = playersFile
               /\ last' = Run("sync", fantasy, FALSE, FALSE, 1)
        ELSE IF noFantasyPlayers(fantasyPlayers)
          THEN /\ playersFile' = playersFile
               /\ last' = Run("sync", fantasy, FALSE, FALSE, 0)
        ELSE /\ playersFile' = [playersFile EXCEPT !.generated_at = 2,
                                                    !.players = JsonArray(mergedPlayers)]
             /\ last' = Run("sync", fantasy, FALSE, TRUE, 0)
     /\ UNCHANGED <<slugRun, scoreRun, fetchRun, buildRun, siteRun>>

Next ==
  \/ \E source \in Sources, dryRun \in BOOLEAN :
       /\ dryRun => Len(source.rows) <= 1
       /\ FetchPlayers(source, dryRun)
  \/ \E fantasy \in FantasyFiles : SyncPlayers(fantasy)

Spec == Init /\ [][Next]_vars

----------------------------------------------------------------------------
(* What the claims speak of *)

Indices(list) == 1..Len(list)

\* the last script run was sync-players-from-fantasy and it merged
Synced == last.op = "sync" /\ last.wrote

\* the last script run was fetch-players and it wrote the file
Fetched == last.op = "fetch" /\ last.wrote

\* the existing list, as the merger reads it
ExistingRecords == [i \in Indices(before.players) |-> normalizeExisting(before.players[i])]

\* the feed, as the merger reads it
IncomingRecords == [j \in Indices(last.rows) |-> normalizePlayerFromFantasy(last.rows[j])]

\* the merger takes a row that has an id and a name
Taken(r) == Truthy(r.id) /\ Truthy(r.name)

\* the identity slugs of the records E
IdsOf(E) == {E[i].id : i \in Indices(E)} \ {Str(<<>>)}

\* the record of E with identity k: the last one when several share it
LastOf(E, k) ==
  E[CHOOSE i \in Indices(E) : E[i].id = k /\ \A h \in Indices(E) : E[h].id = k => h <= i]

\* the rows of R the merger takes for identity k
RowsOf(R, k) == {j \in Indices(R) : Taken(R[j]) /\ R[j].id = k}

HasId(list, k) == \E i \in Indices(list) : Get(list[i], "id") = k

RecordOf(list, k) == list[CHOOSE i \in Indices(list) : Get(list[i], "id") = k]

MaxOf(S) == CHOOSE m \in S : \A x \in S : x <= m

\* the identities in the order the merger first meets them
MeetingOrder(E, R) ==
  [i \in Indices(E) |-> E[i].id]
    \o [j \in Indices(R) |-> IF Taken(R[j]) THEN R[j].id ELSE Str(<<>>)]

FirstMet(order, k) ==
  CHOOSE i \in Indices(order) :
    order[i] = k /\ \A h \in Indices(order) : order[h] = k => i <= h

----------------------------------------------------------------------------
(* C1: merging the same feed a second time changes nothing:               *)
(* mergePlayers(mergePlayers(A, B), B) = mergePlayers(A, B), records,     *)
(* field values and order alike; and the file the sync wrote is a fixed   *)
(* point of merging that feed again.                                      *)
C1_MergeIdempotent ==
  last.op = "sync" =>
    LET merged == mergePlayers(before.players, last.rows)
    IN /\ mergePlayers(merged, last.rows) = merged
       /\ last.wrote => mergePlayers(playersFile.players, last.rows) = playersFile.players

\* a sync whose feed changed an existing player, two rows long
C1_Witness ==
  /\ Synced
  /\ Len(last.rows) >= 2
  /\ \E k \in IdsOf(ExistingRecords) :
       /\ RowsOf(IncomingRecords, k) # {}
       /\ RecordOf(playersFile.players, k) # LastOf(ExistingRecords, k)

C3_EmptyFeedLeavesFile ==
  (last.op = "sync" /\ last.kind \in {"missing", "noPlayers", "rows"} /\ last.rows = <<>>) =>
    /\ ~last.wrote
    /\ playersFile = before
    /\ last.exit = 0

\* a sync without a fantasy file, on a file that holds players
C3_Witness ==
  /\ last.op = "sync"
  /\ last.kind = "missing"
  /\ before.players # <<>>
  /\ playersFile = before

(* C4: every record of a list that fetch-players or                       *)
(* sync-players-from-fantasy wrote has a non-empty id and a non-empty     *)
(* name.                                                                  *)
C4_PersistedHaveIdAndName ==
  (Synced \/ Fetched) =>
    \A i \in Indices(playersFile.players) :
      /\ Truthy(Get(playersFile.players[i], "id"))
      /\ Truthy(Get(playersFile.players[i], "name"))

(* C5: the merger deletes no player: every identity slug of the existing  *)
(* list is the id of a merged record, after the sync and after merging    *)
(* any further feed into its result.                                      *)
C5_NeverDeletes ==
  Synced =>
    LET ids == IdsOf(ExistingRecords)
    IN /\ \A k \in ids : HasId(playersFile.players, k)
       /\ \A feed \in SeqsUpTo(FeedRows, 1) :
            LET again == mergePlayers(playersFile.players, feed)
            IN \A k \in ids : HasId(again, k)

\* a sync on several players, one of them nameless, with a row for a new one
C5_Witness ==
  /\ Synced
  /\ LET E == ExistingRecords
         R == IncomingRecords
     IN /\ Cardinality(IdsOf(E)) >= 2
        /\ \E k \in IdsOf(E) : ~Truthy(LastOf(E, k).name)
        /\ \E j \in Indices(R) : Taken(R[j]) /\ R[j].id \notin IdsOf(E)

(* C6: no two records of a list that fetch-players or                     *)
(* sync-players-from-fantasy wrote have the same id.                      *)
C6_UniqueIds ==
  (Synced \/ Fetched) =>
    \A i, j \in Indices(playersFile.players) :
      i # j => Get(playersFile.players[i], "id") # Get(playersFile.players[j], "id")

C8_SortedStable ==
  Synced =>
    LET order == MeetingOrder(ExistingRecords, IncomingRecords)
        out == playersFile.players
    IN \A i, j \in Indices(out) :
         i < j =>
           /\ localeCompare(out[i].name.s, out[j].name.s) <= 0
           /\ localeCompare(out[i].name.s, out[j].name.s) = 0
                => FirstMet(order, out[i].id) < FirstMet(order, out[j].id)

\* equal names among existing players and a new one, in a list that was
\* not in order
C8_Witness ==
  /\ Synced
  /\ LET E == ExistingRecords
         out == playersFile.players
     IN /\ \E i, j, h \in Indices(out) :
             /\ i < j /\ j < h
             /\ out[i].id \in IdsOf(E)
             /\ out[j].id \in IdsOf(E)
             /\ out[h].id \notin IdsOf(E)
             /\ localeCompare(out[i].name.s, out[j].name.s) = 0
             /\ localeCompare(out[j].name.s, out[h].name.s) = 0
        /\ \E i, j \in Indices(E) : i < j /\ localeCompare(E[i].name.s, E[j].name.s) > 0

(* C9: every counter of every record the normalizers produce is a finite  *)
(* number: normalizeRecord on the rows fetch-players read, and            *)
(* normalizePlayerFromFantasy and the normalization of the existing list  *)
(* in a sync.                                                             *)
C9_NormalizedCountersFinite ==
  /\ last.op = "fetch" =>
       \A i \in Indices(last.rows), f \in CounterFields :
         IsFinite(normalizeRecord(last.rows[i])[f])
  /\ last.op = "sync" =>
       /\ \A j \in Indices(last.rows), f \in CounterFields : IsFinite(IncomingRecords[j][f])
       /\ \A i \in Indices(before.players), f \in CounterFields : IsFinite(ExistingRecords[i][f])

(* C10: every counter of every record of a list that fetch-players or     *)
(* sync-players-from-fantasy wrote is a number that is not negative.      *)
C10_PersistedCountersNonNegative ==
  (Synced \/ Fetched) =>
    \A i \in Indices(playersFile.players), f \in CounterFields :
      LET v == Get(playersFile.players[i], f)
      IN v.t = "number" /\ v.n >= 0

----------------------------------------------------------------------------
(* The identity slug functions on their own: sanitizeId, which every       *)
(* script but merge.mjs carries a copy of, and slugify of merge.mjs, each  *)
(* applied to a string and then to its own result.                         *)

MaxLen == 3

\* a lower-case letter, a capital, a digit, white space, the hyphen, the
\* underscore, punctuation, and a letter with a diacritic in both cases
SlugChars == {"a", "A", "1", " ", "-", "_", "!", "é", "É"}

RawStrings == UNION {[1..n -> SlugChars] : n \in 0..MaxLen}

SlugInit ==
  /\ \E raw \in RawStrings :
       slugRun = [fn |-> "none", raw |-> raw, out |-> <<>>, again |-> <<>>]
  /\ playersFile = Idle /\ before = Idle /\ last = Idle /\ pc = "idle"
  /\ scoreRun = Idle /\ fetchRun = Idle /\ buildRun = Idle /\ siteRun = Idle

ApplySanitizeId ==
  /\ slugRun.fn = "none"
  /\ LET out == sanitizeId(Str(slugRun.raw))
     IN slugRun' = [slugRun EXCEPT !.fn = "sanitizeId", !.out = out,
                                   !.again = sanitizeId(Str(out))]
  /\ UNCHANGED <<pipelineVars, scoreRun, fetchRun, buildRun, siteRun>>

ApplySlugify ==
  /\ slugRun.fn = "none"
  /\ LET out == slugify(Str(slugRun.raw))
     IN slugRun' = [slugRun EXCEPT !.fn = "slugify", !.out = out,
                                   !.again = slugify(Str(out))]
  /\ UNCHANGED <<pipelineVars, scoreRun, fetchRun, buildRun, siteRun>>

SlugNext == ApplySanitizeId \/ ApplySlugify

SlugSpec == SlugInit /\ [][SlugNext]_vars

\* a string with each accented letter replaced by its base letter
Unaccent(s) ==
  [i \in 1..Len(s) |-> IF s[i] = "é" THEN "e" ELSE IF s[i] = "É" THEN "E" ELSE s[i]]

Letters == LowerSet \cup UpperSet \cup {"é", "É"}

(* C11: a slug function applied to its own result returns that result:    *)
(* sanitizeId(sanitizeId(x)) = sanitizeId(x) and slugify(slugify(x)) =    *)
(* slugify(x) for every string x.                                         *)
C11_SlugIdempotent ==
  slugRun.fn \in {"sanitizeId", "slugify"} => slugRun.again = slugRun.out

\* slugify changed its input (case, hyphen runs, a diacritic) and left a slug
C11_Witness ==
  /\ slugRun.fn = "slugify"
  /\ slugRun.raw = <<"É", "-", "-">>
  /\ slugRun.out = <<"e", "-">>
  /\ slugRun.again = slugRun.out

C12_WitnessEmpty ==
  /\ slugRun.fn = "sanitizeId"
  /\ slugRun.raw = <<"!", "-", "_">>
  /\ slugRun.out = <<>>

(* C13: sanitizeId gives a name with an accented letter the slug of the   *)
(* same name written with the base letter.                                *)
C13_StripsDiacritics ==
  slugRun.fn = "sanitizeId" => slugRun.out = sanitizeId(Str(Unaccent(slugRun.raw)))

----------------------------------------------------------------------------
(* The fantasy picker (generate-fantasy): per-90 rates and the two scores. *)
(* Its arithmetic is on fractions: a number is a record [n, d] in lowest   *)
(* terms with d > 0.  The numbers of data/standings.json and of the player *)
(* files are finite: JSON.stringify wrote them.                            *)

Abs(x) == IF x < 0 THEN -x ELSE x

RECURSIVE GCD(_, _)
GCD(a, b) == IF b = 0 THEN a ELSE GCD(b, a % b)

Rat(n, d) ==
  LET g == GCD(Abs(n), Abs(d))
      sign == IF d < 0 THEN -1 ELSE 1
  IN [n |-> sign * (n \div g), d |-> sign * (d \div g)]

Whole(n) == [n |-> n, d |-> 1]

RatAdd(a, b) == Rat(a.n * b.d + b.n * a.d, a.d * b.d)

RatSub(a, b) == Rat(a.n * b.d - b.n * a.d, a.d * b.d)

RatMul(a, b) == Rat(a.n * b.n, a.d * b.d)

\* a / b for b # 0
RatDiv(a, b) == Rat(a.n * b.d, a.d * b.n)

RatLeq(a, b) == a.n * b.d <= b.n * a.d

RatLess(a, b) == a.n * b.d < b.n * a.d

\* Number.prototype.toFixed(2): the nearest hundredth, a tie away from zero
toFixed2(x) ==
  LET mag == Abs(x.n)
      hundredths == (2 * 100 * mag + x.d) \div (2 * x.d)
      cents == hundredths % 100
      text == NatToDigits(hundredths \div 100) \o <<".">>
                \o (IF cents < 10 THEN <<"0">> ELSE <<>>) \o NatToDigits(cents)
  IN IF x.n < 0 THEN <<"-">> \o text ELSE text

\* per90 dividing by the minutes, not by the number of 90-minute spells
per90Unscaled(v, m) == IF RatLess(Whole(0), m) THEN RatDiv(v, m) ELSE Whole(0)

\* per90 = (v, m) => (m > 0 ? v / (m / 90) : 0)
per90(v, m) ==
  IF RatLess(Whole(0), m) THEN RatDiv(v, RatDiv(m, Whole(90))) ELSE Whole(0)

\* num = (v) => (typeof v === "number" && Number.isFinite(v) ? v : 0)
num(v) == IF v.t = "number" THEN Whole(v.n) ELSE Whole(0)

\* String.prototype.split(","): the pieces between the commas
RECURSIVE SplitAtCommas(_, _)
SplitAtCommas(s, piece) ==
  IF s = <<>> THEN <<piece>>
  ELSE IF Head(s) = "," THEN <<piece>> \o SplitAtCommas(Tail(s), <<>>)
  ELSE SplitAtCommas(Tail(s), Append(piece, Head(s)))

\* .map((p) => p.trim()).filter(Boolean)
RECURSIVE TrimmedParts(_)
TrimmedParts(pieces) ==
  IF pieces = <<>> THEN <<>>
  ELSE LET part == trim(Head(pieces))
       IN (IF part = <<>> THEN <<>> ELSE <<part>>) \o TrimmedParts(Tail(pieces))

\* .slice(-5)
LastFive(parts) ==
  IF Len(parts) <= 5 THEN parts ELSE SubSeq(parts, Len(parts) - 4, Len(parts))

\* the reduce of parseForm: W counts 1, D counts 1/2, anything else 0
RECURSIVE FormPoints(_)
FormPoints(parts) ==
  IF parts = <<>> THEN Whole(0)
  ELSE LET part == parts[Len(parts)]
           sofar == FormPoints(SubSeq(parts, 1, Len(parts) - 1))
       IN IF part = <<"W">> THEN RatAdd(sofar, Whole(1))
          ELSE IF part = <<"D">> THEN RatAdd(sofar, Rat(1, 2))
          ELSE sofar

FormParts(formString) ==
  LastFive(TrimmedParts(SplitAtCommas(ToStringJS(formString), <<>>)))

\* parseForm adding the results up without averaging them
parseFormSummed(formString) ==
  IF ~Truthy(formString) \/ FormParts(formString) = <<>> THEN Null
  ELSE FormPoints(FormParts(formString))

\* parseForm: Null for no form, else the average of the last five results
parseForm(formString) ==
  IF ~Truthy(formString) THEN Null
  ELSE LET parts == FormParts(formString)
       IN IF parts = <<>> THEN Null
          ELSE RatDiv(FormPoints(parts), Whole(Len(parts)))

\* Number(x) || 0 on the finite numbers of the standings file
NumberOrZeroOf(v) ==
  LET x == ToNumberJS(v)
  IN IF x.t = "number" THEN x.n ELSE 0

\* Map.prototype.set; the order of a Map's keys plays no part here
MapPut(map, key, value) ==
  [k \in DOMAIN map \cup {key} |-> IF k = key THEN value ELSE map[k]]

EmptyMap == [k \in {} |-> Null]

\* the sums of one competition's table rows: [points, games]
RECURSIVE TableTotals(_)
TableTotals(table) ==
  IF table = <<>> THEN [points |-> 0, games |-> 0]
  ELSE LET row == table[Len(table)]
           sofar == TableTotals(SubSeq(table, 1, Len(table) - 1))
           points == Get(row, "points")
           playedGames == Get(row, "playedGames")
       IN [points |-> sofar.points
                        + (IF points \notin {Null, Undef} THEN NumberOrZeroOf(points) ELSE 0),
           games |-> sofar.games
                        + (IF playedGames \notin {Null, Undef} THEN NumberOrZeroOf(playedGames) ELSE 0)]

\* teamForm after the rows of one table
RECURSIVE TableForms(_, _)
TableForms(teamForm, table) ==
  IF table = <<>> THEN teamForm
  ELSE LET row == Head(table)
           teamKey == sanitizeId(Get(row, "team"))
           form == parseForm(Get(row, "form"))
       IN TableForms(IF teamKey # <<>> /\ form # Null
                       THEN MapPut(teamForm, teamKey, form) ELSE teamForm,
                     Tail(table))

\* buildStandingsSignals: the loop over the competitions
RECURSIVE SignalsOf(_, _)
SignalsOf(signals, competitions) ==
  IF competitions = <<>> THEN signals
  ELSE LET entry == Head(competitions)
           competitionKey == sanitizeId(Str(ToStringJS(OrElse(entry.name, Str(<<>>)))))
           totals == TableTotals(entry.table)
           teamForm == TableForms(signals.teamForm, entry.table)
           leagueDifficulty ==
             IF competitionKey # <<>> /\ totals.games > 0
               THEN MapPut(signals.leagueDifficulty, competitionKey,
                           Rat(totals.points, totals.games))
             ELSE signals.leagueDifficulty
       IN SignalsOf([leagueDifficulty |-> leagueDifficulty, teamForm |-> teamForm],
                    Tail(competitions))

\* a standings file is [kind, competitions]: missing, or the list it holds
buildStandingsSignals(standingsParsed) ==
  SignalsOf([leagueDifficulty |-> EmptyMap, teamForm |-> EmptyMap],
            IF standingsParsed.kind = "competitions" THEN standingsParsed.competitions
            ELSE <<>>)

MapValues(map) == {map[k] : k \in DOMAIN map}

RatMin(S) == CHOOSE m \in S : \A x \in S : RatLeq(m, x)

RatMax(S) == CHOOSE m \in S : \A x \in S : RatLeq(x, m)

\* difficultyMin, difficultyMax and difficultyNorm of main
difficultyNormOf(leagueDifficulty, competitionKey) ==
  LET difficultyValues == MapValues(leagueDifficulty)
      difficultyMin == IF difficultyValues # {} THEN RatMin(difficultyValues) ELSE Whole(0)
      difficultyMax == IF difficultyValues # {} THEN RatMax(difficultyValues) ELSE Whole(1)
  IN IF competitionKey \notin DOMAIN leagueDifficulty \/ difficultyMax = difficultyMin
       THEN Whole(1)
     ELSE RatAdd(Rat(85, 100),
                 RatMul(RatDiv(RatSub(leagueDifficulty[competitionKey], difficultyMin),
                               RatSub(difficultyMax, difficultyMin)),
                        Rat(3, 10)))

\* a team without form data counted as having lost every match
formScoreRawZero(teamForm, teamKey) ==
  IF teamKey \in DOMAIN teamForm THEN teamForm[teamKey] ELSE Whole(0)

\* teamForm.get(teamKey) ?? 0.5
formScoreRawOf(teamForm, teamKey) ==
  IF teamKey \in DOMAIN teamForm THEN teamForm[teamKey] ELSE Rat(1, 2)

\* formBoost = 0.85 + formScoreRaw * 0.3
formBoostOf(formScoreRaw) == RatAdd(Rat(85, 100), RatMul(formScoreRaw, Rat(3, 10)))

\* the scores with the form multiplier in the value score as well
scoresFormInValue(g90, a90, s90, difficultyNorm, formBoost) ==
  LET baseScore == RatAdd(RatAdd(RatMul(g90, Whole(4)), RatMul(a90, Whole(3))),
                          RatMul(s90, Rat(1, 2)))
  IN [baseScore |-> baseScore,
      formScore |-> RatMul(RatMul(baseScore, difficultyNorm), formBoost),
      valueScore |-> RatMul(RatMul(RatMul(RatAdd(g90, a90), Whole(90)), difficultyNorm),
                            formBoost)]

\* baseScore, formScore and valueScore of main
scores(g90, a90, s90, difficultyNorm, formBoost) ==
  LET baseScore == RatAdd(RatAdd(RatMul(g90, Whole(4)), RatMul(a90, Whole(3))),
                          RatMul(s90, Rat(1, 2)))
  IN [baseScore |-> baseScore,
      formScore |-> RatMul(RatMul(baseScore, difficultyNorm), formBoost),
      valueScore |-> RatMul(RatMul(RatAdd(g90, a90), Whole(90)), difficultyNorm)]

\* the numbers main computes for one player
figuresOf(p, signals) ==
  LET mins == num(Coalesce(Get(p, "minutes"), Get(p, "minutesEstimate")))
      g90 == per90(num(Get(p, "goals")), mins)
      a90 == per90(num(Get(p, "assists")), mins)
      s90 == per90(num(Get(p, "shots")), mins)
      competitionName == ToStringJS(Coalesce(Get(p, "competition"), Str(<<>>)))
      competitionKey == sanitizeId(Str(competitionName))
      teamKey == sanitizeId(Get(p, "team"))
      difficultyNorm == difficultyNormOf(signals.leagueDifficulty, competitionKey)
      formScoreRaw == formScoreRawOf(signals.teamForm, teamKey)
      formBoost == formBoostOf(formScoreRaw)
      sc == scores(g90, a90, s90, difficultyNorm, formBoost)
  IN [g90 |-> g90, a90 |-> a90, s90 |-> s90, competitionKey |-> competitionKey,
      teamKey |-> teamKey, difficultyNorm |-> difficultyNorm,
      formScoreRaw |-> formScoreRaw, formBoost |-> formBoost,
      baseScore |-> sc.baseScore, formScore |-> sc.formScore,
      valueScore |-> sc.valueScore]

\* the row main returns for one player
rowOf(p, fig) ==
  [id |-> sanitizeId(OrElse(Get(p, "id"), Get(p, "name"))),
   name |-> ToStringJS(Coalesce(Get(p, "name"), Str(<<"P", "l", "a", "y", "e", "r">>))),
   position |-> ToStringJS(Coalesce(Get(p, "position"), Str(<<>>))),
   team |-> ToStringJS(Coalesce(Get(p, "team"), Str(<<>>))),
   competition |-> ToStringJS(Coalesce(Get(p, "competition"), Str(<<>>))),
   g90 |-> toFixed2(fig.g90), a90 |-> toFixed2(fig.a90), s90 |-> toFixed2(fig.s90),
   formScore |-> toFixed2(fig.formScore), valueScore |-> toFixed2(fig.valueScore)]

\* players = fantasyPlayers.length ? fantasyPlayers : parsed.players
playersOf(fantasyPlayers, filePlayers) ==
  IF Len(fantasyPlayers) > 0 THEN fantasyPlayers ELSE filePlayers

\* What generate-fantasy reads

MaxPlayers == 1

MaxCount == 9

L1 == <<"L", "1">>

L2 == <<"L", "2">>

\* the form strings of a standings row: none, one result, several, more than
\* five, and one with blanks, an empty piece and an unknown letter
FormStrings ==
  { <<>>, <<"W">>, <<"L">>, <<"D", ",", "W">>,
    <<"L", ",", "W", ",", "W", ",", "W", ",", "W", ",", "W">>,
    <<" ", "W", " ", ",", ",", "x">> }

OtherFormStrings == { <<>>, <<"L", ",", "D">> }

TableRow(team, points, playedGames, form) ==
  [team |-> Str(team), points |-> points, playedGames |-> playedGames, form |-> Str(form)]

Competition(name, table) == [name |-> name, table |-> table]

\* the standings files: none, one without competitions, one league, two and
\* three leagues of different strength, a league without games next to one
\* without a name, a points deduction and points as text, one league twice
StandingsFiles(formT, formU) ==
  { [kind |-> "missing", competitions |-> <<>>],
    [kind |-> "competitions", competitions |-> <<>>],
    [kind |-> "competitions", competitions |->
       << Competition(Str(L1), <<TableRow(<<"T">>, Num(3), Num(1), formT)>>) >>],
    [kind |-> "competitions", competitions |->
       << Competition(Str(L1), <<TableRow(<<"T">>, Num(3), Num(1), formT),
                                 TableRow(<<"V">>, Null, Null, <<>>)>>),
          Competition(Str(<<"l", "2", " ">>), <<TableRow(<<"U">>, Num(1), Num(2), formU)>>) >>],
    [kind |-> "competitions", competitions |->
       << Competition(Str(L1), <<TableRow(<<"T">>, Num(3), Num(1), formT)>>),
          Competition(Str(L2), <<TableRow(<<"U">>, Num(1), Num(2), formU)>>),
          Competition(Str(<<"L", "3">>), <<TableRow(<<"V">>, Num(4), Num(2), <<>>)>>) >>],
    [kind |-> "competitions", competitions |->
       << Competition(Str(L1), <<TableRow(<<"T">>, Num(0), Num(0), formT)>>),
          Competition(Null, <<TableRow(<<"U">>, Num(2), Num(1), formU)>>) >>],
    [kind |-> "competitions", competitions |->
       << Competition(Str(L1), <<TableRow(<<"T">>, Num(0 - 3), Num(2), formT)>>),
          Competition(Str(L2), <<TableRow(<<"u", " ">>, Str(<<"6">>), Num(3), formU)>>) >>],
    [kind |-> "competitions", competitions |->
       << Competition(Str(L1), <<TableRow(<<"T">>, Num(3), Num(1), formT)>>),
          Competition(Str(<<"l", "1">>), <<TableRow(<<"T">>, Num(1), Num(1), <<"L">>)>>),
          Competition(Str(L2), <<TableRow(<<"U">>, Num(2), Num(1), formU)>>) >>] }

\* rows of data/fantasy.json: a scorer of L1 and of L2, a player without a
\* competition or a team, and one of an unknown league with minutes as text
ScorerRows ==
  { [k \in {"name", "team", "competition", "goals", "assists", "shots", "minutesEstimate"} |->
       CASE k = "name" -> Str(Al) [] k = "team" -> Str(<<"T">>)
         [] k = "competition" -> Str(L1) [] k = "goals" -> Num(2)
         [] k = "assists" -> Num(1) [] k = "shots" -> Num(4)
         [] k = "minutesEstimate" -> Num(90)],
    [k \in {"id", "name", "team", "competition", "goals", "assists", "minutes", "minutesEstimate"} |->
       CASE k = "id" -> Num(7) [] k = "name" -> Str(Bo) [] k = "team" -> Str(<<"U">>)
         [] k = "competition" -> Str(<<"l", "2">>) [] k = "goals" -> Num(3)
         [] k = "assists" -> Num(0) [] k = "minutes" -> Num(950)
         [] k = "minutesEstimate" -> Num(90)],
    [k \in {"name", "goals", "assists", "shots", "minutes"} |->
       CASE k = "name" -> Str(Bo) [] k = "goals" -> Num(1) [] k = "assists" -> Num(1)
         [] k = "shots" -> Num(1) [] k = "minutes" -> Num(45)],
    [k \in {"team", "competition", "goals", "assists", "minutes"} |->
       CASE k = "team" -> Str(<<"X">>) [] k = "competition" -> Str(<<"L", "9">>)
         [] k = "goals" -> Num(5) [] k = "assists" -> Str(<<"2">>)
         [] k = "minutes" -> Str(<<"9", "0">>)] }

\* the players of data/players.json, as sync-players-from-fantasy leaves them
FilePlayers ==
  { <<>>,
    << [k \in {"id", "name", "position", "team", "minutes", "goals", "assists", "shots",
               "shotsOnTarget"} |->
          CASE k = "id" -> Str(<<"a", "l">>) [] k = "name" -> Str(Al)
            [] k = "position" -> Str(FW) [] k = "team" -> Str(<<"T">>)
            [] k = "minutes" -> Num(180) [] k = "goals" -> Num(3)
            [] k = "assists" -> Num(1) [] k = "shots" -> Num(5)
            [] k = "shotsOnTarget" -> Num(2)] >> }

\* the arguments per90 is applied to
Counts == {Whole(n) : n \in (0 - 1)..MaxCount} \cup {Rat(1, 2)}

Minutes == {Whole(0 - 90), Whole(0), Rat(1, 2), Whole(45), Whole(90), Whole(900), Whole(950)}

\* scoreRun is either the arguments and result of one call of per90, or
\* the files generate-fantasy reads and the rows it puts on the page
ScoreInit ==
  /\ \/ \E v \in Counts, m \in Minutes :
          scoreRun = [op |-> "args", v |-> v, m |-> m, out |-> Whole(0)]
     \/ \E formT \in FormStrings, formU \in OtherFormStrings :
          \E standings \in StandingsFiles(formT, formU),
             fantasyPlayers \in SeqsUpTo(ScorerRows, MaxPlayers),
             filePlayers \in FilePlayers :
            scoreRun = [op |-> "files", standings |-> standings,
                        fantasyPlayers |-> fantasyPlayers, filePlayers |-> filePlayers,
                        formT |-> formT, formU |-> formU,
                        signals |-> [leagueDifficulty |-> EmptyMap, teamForm |-> EmptyMap],
                        figures |-> <<>>, rows |-> <<>>]
  /\ playersFile = Idle /\ before = Idle /\ last = Idle /\ pc = "idle"
  /\ slugRun = Idle /\ fetchRun = Idle /\ buildRun = Idle /\ siteRun = Idle

ApplyPer90 ==
  /\ scoreRun.op = "args"
  /\ scoreRun' = [scoreRun EXCEPT !.op = "per90", !.out = per90(scoreRun.v, scoreRun.m)]
  /\ UNCHANGED <<pipelineVars, slugRun, fetchRun, buildRun, siteRun>>

\* main of generate-fantasy, up to the rows of the table
GenerateFantasy ==
  /\ scoreRun.op = "files"
  /\ LET players == playersOf(scoreRun.fantasyPlayers, scoreRun.filePlayers)
         signals == buildStandingsSignals(scoreRun.standings)
         figures == [i \in 1..Len(players) |-> figuresOf(players[i], signals)]
     IN scoreRun' = [scoreRun EXCEPT !.op = "page", !.signals = signals,
                       !.figures = figures,
                       !.rows = [i \in 1..Len(players) |-> rowOf(players[i], figures[i])]]
  /\ UNCHANGED <<pipelineVars, slugRun, fetchRun, buildRun, siteRun>>

ScoreNext == ApplyPer90 \/ GenerateFantasy

ScoreSpec == ScoreInit /\ [][ScoreNext]_vars

\* the players the page was made of
ScoredPlayers == playersOf(scoreRun.fantasyPlayers, scoreRun.filePlayers)

(* C14: per90(count, minutes) is count / (minutes / 90), that is          *)
(* count * 90 / minutes, for minutes > 0 and is 0 for minutes <= 0;       *)
(* per90(5, 0) = 0, per90(0, 90) = 0 and per90(9, 90) = 9.                *)
C14_Per90 ==
  scoreRun.op = "per90" =>
    LET v == scoreRun.v
        m == scoreRun.m
        out == scoreRun.out
    IN /\ m.n > 0 => RatMul(out, m) = RatMul(v, Whole(90))
       /\ m.n <= 0 => out = Whole(0)
       /\ (v = Whole(5) /\ m = Whole(0)) => out = Whole(0)
       /\ (v = Whole(0) /\ m = Whole(90)) => out = Whole(0)
       /\ (v = Whole(9) /\ m = Whole(90)) => out = Whole(9)

\* per90(3, 950) = 27/95, about 0.284
C14_Witness ==
  /\ scoreRun.op = "per90"
  /\ scoreRun.v = Whole(3) /\ scoreRun.m = Whole(950)
  /\ scoreRun.out = Rat(27, 95)

\* per90 of negative minutes is 0
C14_WitnessNegative ==
  /\ scoreRun.op = "per90"
  /\ scoreRun.v = Whole(5) /\ scoreRun.m = Whole(0 - 90)
  /\ scoreRun.out = Whole(0)

(* C15: for every player on the page the league-difficulty multiplier    *)
(* and the team-form multiplier each lie between 0.85 and 1.15.           *)
C15_MultipliersBounded ==
  scoreRun.op = "page" =>
    \A i \in Indices(scoreRun.figures) :
      LET fig == scoreRun.figures[i]
      IN /\ RatLeq(Rat(85, 100), fig.difficultyNorm)
         /\ RatLeq(fig.difficultyNorm, Rat(115, 100))
         /\ RatLeq(Rat(85, 100), fig.formBoost)
         /\ RatLeq(fig.formBoost, Rat(115, 100))

\* a player of the strongest of three leagues whose team lost its last match
C15_Witness ==
  /\ scoreRun.op = "page"
  /\ Cardinality(DOMAIN scoreRun.signals.leagueDifficulty) = 3
  /\ \E i \in Indices(scoreRun.figures) :
       /\ scoreRun.figures[i].difficultyNorm = Rat(115, 100)
       /\ scoreRun.figures[i].formBoost = Rat(85, 100)

\* a player of the weakest league whose team won all of its last five
C15_WitnessLow ==
  /\ scoreRun.op = "page"
  /\ scoreRun.formT = <<"L", ",", "W", ",", "W", ",", "W", ",", "W", ",", "W">>
  /\ \E i \in Indices(scoreRun.figures) :
       /\ scoreRun.figures[i].difficultyNorm = Rat(85, 100)
       /\ scoreRun.figures[i].formBoost = Rat(115, 100)

(* C16: for a player whose competition has no standings signal and whose  *)
(* team has no form data the difficulty multiplier is 1 and the raw form  *)
(* is 1/2, so formScore = baseScore = goals90*4 + assists90*3 + shots90/2 *)
(* and valueScore = (goals90 + assists90) * 90.                           *)
C16_NeutralWithoutSignals ==
  scoreRun.op = "page" =>
    \A i \in Indices(scoreRun.figures) :
      LET fig == scoreRun.figures[i]
          base == RatAdd(RatAdd(RatMul(fig.g90, Whole(4)), RatMul(fig.a90, Whole(3))),
                         RatMul(fig.s90, Rat(1, 2)))
      IN (/\ fig.competitionKey \notin DOMAIN scoreRun.signals.leagueDifficulty
          /\ fig.teamKey \notin DOMAIN scoreRun.signals.teamForm)
           => /\ fig.difficultyNorm = Whole(1)
              /\ fig.formScoreRaw = Rat(1, 2)
              /\ fig.baseScore = base
              /\ fig.formScore = base
              /\ fig.valueScore = RatMul(RatAdd(fig.g90, fig.a90), Whole(90))
              /\ scoreRun.rows[i].formScore = toFixed2(base)

\* a player without competition and team, 1 goal, 1 assist and 1 shot in 45
\* minutes, scored next to standings that hold signals for others
C16_Witness ==
  /\ scoreRun.op = "page"
  /\ Cardinality(DOMAIN scoreRun.signals.leagueDifficulty) >= 2
  /\ DOMAIN scoreRun.signals.teamForm # {}
  /\ \E i \in Indices(scoreRun.figures) :
       /\ scoreRun.figures[i].teamKey = <<>>
       /\ scoreRun.figures[i].formScore = Whole(15)
       /\ scoreRun.figures[i].valueScore = Whole(360)
       /\ scoreRun.rows[i].valueScore = <<"3", "6", "0", ".", "0", "0">>

\* the form strings a standings file holds
FormsOf(standings) ==
  UNION {{standings.competitions[c].table[r].form :
            r \in Indices(standings.competitions[c].table)} :
         c \in Indices(standings.competitions)}

\* the form strings put in place of those of a standings file
OtherForms == { <<>>, <<"W">>, <<"L">> }

\* the standings file with every form string f replaced by h[f]
WithForms(standings, h) ==
  [standings EXCEPT !.competitions =
     [c \in Indices(standings.competitions) |->
        [standings.competitions[c] EXCEPT !.table =
           [r \in Indices(standings.competitions[c].table) |->
              [standings.competitions[c].table[r] EXCEPT
                 !.form = Str(h[standings.competitions[c].table[r].form.s])]]]]]

\* the runs that differ from the one made only in the form strings
OtherRuns ==
  LET forms == {f.s : f \in FormsOf(scoreRun.standings)}
  IN {WithForms(scoreRun.standings, h) : h \in [forms -> OtherForms]}

(* C17: a run on standings that differ only in the form strings gives     *)
(* every player the same valueScore.                                      *)
C17_ValueIgnoresForm ==
  scoreRun.op = "page" =>
    \A standings \in OtherRuns :
      LET signals == buildStandingsSignals(standings)
      IN \A i \in Indices(ScoredPlayers) :
           LET fig == figuresOf(ScoredPlayers[i], signals)
           IN /\ fig.valueScore = scoreRun.figures[i].valueScore
              /\ rowOf(ScoredPlayers[i], fig).valueScore = scoreRun.rows[i].valueScore

\* a player whose formScore follows the form string of the team while the
\* valueScore, which is not 0, stays
C17_Witness ==
  /\ scoreRun.op = "page"
  /\ \E i \in Indices(ScoredPlayers) :
       /\ scoreRun.figures[i].valueScore # Whole(0)
       /\ scoreRun.figures[i].difficultyNorm # Whole(1)
       /\ \E standings \in OtherRuns :
            LET fig == figuresOf(ScoredPlayers[i], buildStandingsSignals(standings))
            IN /\ fig.formScore # scoreRun.figures[i].formScore
               /\ fig.valueScore = scoreRun.figures[i].valueScore

----------------------------------------------------------------------------
(* The two fetch scripts, request by request.  A request either gives its  *)
(* payload or fails: fetchJson throws on a network error and on a status   *)
(* that is not ok.  fetchRun holds the script, whether the API token is    *)
(* set, the step it is at, the competitions it goes through, the position  *)
(* in them, the outputs collected, the warnings logged, the files written  *)
(* and the exit status, empty while the script runs.                       *)

MaxComps == 2

\* what a request gives: the body of the response, or nothing when it fails
Failure == [ok |-> FALSE, body |-> <<>>]

Response(body) == [ok |-> TRUE, body |-> body]

\* the message of the Error fetchJson throws
FetchError == "fetch failed"

\* a slice of an output without an error field
NoError == "absent"

\* competitions of the Football-Data list: two with an id, one without
ListedCompetitions ==
  { [id |-> Num(1), name |-> L1], [id |-> Num(2), name |-> L2],
    [id |-> Null, name |-> <<"L", "3">>] }

\* the competition/season pairs of the StatsBomb list, one without a season
StatsbombCompetitions ==
  { [competition_name |-> L1, season_name |-> <<"1">>],
    [competition_name |-> L1, season_name |-> <<"2">>],
    [competition_name |-> L2, season_name |-> <<>>] }

\* the sources of data/openfootball-sources.json, one without a url
OpenfootballSources ==
  { [url |-> "u1", competition |-> L1, season |-> <<"1">>],
    [url |-> "u2", competition |-> L2, season |-> <<"1">>],
    [url |-> "", competition |-> L2, season |-> <<"2">>] }

\* what a request that succeeds gives: one match, one scorer and one
\* scorer without a name
MatchesPayload == <<"match">>

ScorersPayload == <<[name |-> Al], [name |-> <<" ">>]>>

\* cfg.footballData.competitions of data/sources.json
ConfiguredCompetitions == {[code |-> "PL", label |-> L1], [code |-> "CL", label |-> L2]}

FetchState(script, token, step, list, i, out, warnings, files, exit) ==
  [script |-> script, token |-> token, pc |-> step, list |-> list, i |-> i,
   out |-> out, warnings |-> warnings, files |-> files, exit |-> exit,
   inFlight |-> {}, requests |-> 0]

FootballDataOut == [fixturesOutput |-> <<>>, standingsOutput |-> <<>>, fantasyPlayers |-> <<>>]

ArchiveOut(sources, enabled) ==
  [entries |-> <<>>, statsbomb |-> "pending", openfootball |-> "pending",
   openfootballList |-> sources, statsbombEnabled |-> enabled]

FetchInit ==
  /\ \/ \E token \in BOOLEAN :
          fetchRun = FetchState("fetch-football-data", token, "start", <<>>, 1,
                                FootballDataOut, <<>>, {}, <<>>)
     \/ \E enabled \in BOOLEAN, sources \in SeqsUpTo(OpenfootballSources, MaxComps) :
          fetchRun = FetchState("fetch-archive", TRUE, "start", <<>>, 1,
                                ArchiveOut(sources, enabled), <<>>, {}, <<>>)
     \/ \E token \in BOOLEAN, comps \in SeqsUpTo(ConfiguredCompetitions, MaxComps) :
          fetchRun = FetchState("build-current", token, "start", comps, 1,
                                [competitions |-> {}, got |-> <<>>], <<>>, {}, <<>>)
  /\ playersFile = Idle /\ before = Idle /\ last = Idle /\ pc = "idle"
  /\ slugRun = Idle /\ scoreRun = Idle /\ buildRun = Idle /\ siteRun = Idle

\* selectedCompetitions with the scope "all": the competitions with an id
RECURSIVE selectedCompetitions(_)
selectedCompetitions(competitions) ==
  IF competitions = <<>> THEN <<>>
  ELSE (IF Truthy(Head(competitions).id) THEN <<Head(competitions)>> ELSE <<>>)
         \o selectedCompetitions(Tail(competitions))

\* the competition a slice is about: ...competition, slug
Labelled(competition) ==
  [id |-> competition.id, name |-> competition.name,
   slug |-> sanitizeId(Str(competition.name))]

\* main().catch leaving with status 0
fatalExitZero(run) == [run EXCEPT !.pc = "done", !.exit = <<0>>]

\* an exception in main that nothing catches: main().catch exits with 1
fatal(run) == [run EXCEPT !.pc = "done", !.exit = <<1>>]

\* main of fetch-football-data: the token, throw new Error when it is missing
FootballDataStart ==
  /\ fetchRun.script = "fetch-football-data" /\ fetchRun.pc = "start"
  /\ fetchRun' = IF fetchRun.token THEN [fetchRun EXCEPT !.pc = "list"]
                 ELSE fatal(fetchRun)
  /\ UNCHANGED <<pipelineVars, slugRun, scoreRun, buildRun, siteRun>>

\* every request of the loop the script is in, sent together
issuedTogether(run) ==
  IF run.pc \in {"matches", "standings", "scorers", "openfootball"}
    THEN {<<run.pc, k>> : k \in 1..Len(run.list)}
  ELSE IF run.pc \in {"list", "competitions"} THEN {<<run.pc, run.i>>}
  ELSE {}

\* await fetchJson(...): the request the script sends where it stands, none
\* for a unit it skips with continue
issued(run) ==
  IF run.pc \in {"start", "write", "done"} THEN {}
  ELSE IF run.pc \in {"list", "competitions"} THEN {<<run.pc, run.i>>}
  ELSE IF run.list = <<>> THEN {}
  ELSE IF run.script = "fetch-archive" /\ run.pc = "matches"
            /\ (\/ safeStr(Str(run.list[run.i].competition_name)) = <<>>
                \/ safeStr(Str(run.list[run.i].season_name)) = <<>>) THEN {}
  ELSE IF run.script = "fetch-archive" /\ run.pc = "openfootball"
            /\ run.list[run.i].url = "" THEN {}
  ELSE {<<run.pc, run.i>>}

\* the request leaves; the script waits for its promise
FetchRequest ==
  /\ issued(fetchRun) # {} /\ issued(fetchRun) \cap fetchRun.inFlight = {}
  /\ fetchRun' = [fetchRun EXCEPT !.inFlight = @ \cup issued(fetchRun),
                                  !.requests = @ + 1]
  /\ UNCHANGED <<pipelineVars, slugRun, scoreRun, buildRun, siteRun>>

\* the promise settles and the script goes on
settled(run) == [run EXCEPT !.inFlight = @ \ issued(fetchRun)]

\* the request for the list of competitions, outside every try
FootballDataList(payload) ==
  /\ fetchRun.script = "fetch-football-data" /\ fetchRun.pc = "list"
  /\ issued(fetchRun) \subseteq fetchRun.inFlight
  /\ fetchRun' = settled(
       IF ~payload.ok THEN fatal(fetchRun)
       ELSE LET selected == selectedCompetitions(payload.body)
            IN [fetchRun EXCEPT !.list = selected, !.i = 1,
                  !.pc = IF selected = <<>> THEN "write" ELSE "matches"])
  /\ UNCHANGED <<pipelineVars, slugRun, scoreRun, buildRun, siteRun>>

\* the first try of the loop: the fixtures of competition i
FootballDataMatches(payload) ==
  /\ fetchRun.script = "fetch-football-data" /\ fetchRun.pc = "matches"
  /\ issued(fetchRun) \subseteq fetchRun.inFlight
  /\ LET competition == Labelled(fetchRun.list[fetchRun.i])
         slice == IF ~payload.ok
                    THEN [competition |-> competition, matchCount |-> 0,
                          matches |-> <<>>, error |-> FetchError]
                  ELSE [competition |-> competition, matchCount |-> Len(payload.body),
                        matches |-> payload.body, error |-> NoError]
     IN fetchRun' = settled([fetchRun EXCEPT !.pc = "standings",
                       !.out.fixturesOutput = Append(@, slice),
                       !.warnings = IF ~payload.ok
                                      THEN Append(@, <<"fixtures", competition.name>>)
                                    ELSE @])
  /\ UNCHANGED <<pipelineVars, slugRun, scoreRun, buildRun, siteRun>>

\* the second try: the standings of competition i
FootballDataStandings(payload) ==
  /\ fetchRun.script = "fetch-football-data" /\ fetchRun.pc = "standings"
  /\ issued(fetchRun) \subseteq fetchRun.inFlight
  /\ LET competition == Labelled(fetchRun.list[fetchRun.i])
         slice == IF ~payload.ok
                    THEN [competition |-> competition, standings |-> <<>>,
                          error |-> FetchError]
                  ELSE [competition |-> competition, standings |-> payload.body,
                        error |-> NoError]
     IN fetchRun' = settled([fetchRun EXCEPT !.pc = "scorers",
                       !.out.standingsOutput = Append(@, slice),
                       !.warnings = IF ~payload.ok
                                      THEN Append(@, <<"standings", competition.name>>)
                                    ELSE @])
  /\ UNCHANGED <<pipelineVars, slugRun, scoreRun, buildRun, siteRun>>

\* for (const scorer of scorers): the entries with a name
RECURSIVE NamedScorers(_, _)
NamedScorers(scorers, competition) ==
  IF scorers = <<>> THEN <<>>
  ELSE LET entry == [name |-> safeStr(Str(Head(scorers).name)),
                     competition |-> competition]
       IN (IF entry.name # <<>> THEN <<entry>> ELSE <<>>)
            \o NamedScorers(Tail(scorers), competition)

\* the third try: the scorers of competition i, then the next competition
FootballDataScorers(payload) ==
  /\ fetchRun.script = "fetch-football-data" /\ fetchRun.pc = "scorers"
  /\ issued(fetchRun) \subseteq fetchRun.inFlight
  /\ LET competition == Labelled(fetchRun.list[fetchRun.i])
     IN fetchRun' = settled([fetchRun EXCEPT
                       !.pc = IF fetchRun.i < Len(fetchRun.list) THEN "matches" ELSE "write",
                       !.i = @ + 1,
                       !.out.fantasyPlayers =
                          IF ~payload.ok THEN @
                          ELSE @ \o NamedScorers(payload.body, competition),
                       !.warnings = IF ~payload.ok
                                      THEN Append(@, <<"fantasy", competition.name>>)
                                    ELSE @])
  /\ UNCHANGED <<pipelineVars, slugRun, scoreRun, buildRun, siteRun>>

\* the three writeFile calls at the end of main
FootballDataWrite ==
  /\ fetchRun.script = "fetch-football-data" /\ fetchRun.pc = "write"
  /\ fetchRun' = [fetchRun EXCEPT !.pc = "done", !.exit = <<0>>,
                    !.files = {"fixtures.json", "standings.json", "fantasy.json"}]
  /\ UNCHANGED <<pipelineVars, slugRun, scoreRun, buildRun, siteRun>>

\* the key and the fresh entry of a competition and season in the archive
ArchiveEntry(competitionName, seasonName) ==
  [key |-> <<sanitizeId(Str(competitionName)), sanitizeId(Str(seasonName))>>,
   competition |-> competitionName, season |-> seasonName,
   sources |-> <<>>, statsbomb |-> <<>>, openfootball |-> <<>>]

EntryIndex(entries, key) == {k \in 1..Len(entries) : entries[k].key = key}

\* entries.get(entryKey) || { ... }
EntryGet(entries, fresh) ==
  IF EntryIndex(entries, fresh.key) # {}
    THEN entries[CHOOSE k \in EntryIndex(entries, fresh.key) : TRUE]
  ELSE fresh

\* entries.set(entryKey, entry)
EntrySet(entries, entry) ==
  IF EntryIndex(entries, entry.key) # {}
    THEN [entries EXCEPT ![CHOOSE k \in EntryIndex(entries, entry.key) : TRUE] = entry]
  ELSE Append(entries, entry)

Includes(list, x) == \E k \in 1..Len(list) : list[k] = x

\* main of fetch-archive: the configuration
ArchiveStart ==
  /\ fetchRun.script = "fetch-archive" /\ fetchRun.pc = "start"
  /\ fetchRun' = [fetchRun EXCEPT
                    !.pc = IF fetchRun.out.statsbombEnabled THEN "competitions"
                           ELSE "openfootball",
                    !.list = fetchRun.out.openfootballList]
  /\ UNCHANGED <<pipelineVars, slugRun, scoreRun, buildRun, siteRun>>

\* the request for competitions.json, inside the outer try
ArchiveCompetitions(payload) ==
  /\ fetchRun.script = "fetch-archive" /\ fetchRun.pc = "competitions"
  /\ issued(fetchRun) \subseteq fetchRun.inFlight
  /\ fetchRun' = settled(
       IF ~payload.ok
         THEN [fetchRun EXCEPT !.out.statsbomb = "error", !.pc = "openfootball",
                               !.list = fetchRun.out.openfootballList, !.i = 1]
       ELSE IF payload.body = <<>>
         THEN [fetchRun EXCEPT !.out.statsbomb = "ok", !.pc = "openfootball",
                               !.list = fetchRun.out.openfootballList, !.i = 1]
       ELSE [fetchRun EXCEPT !.list = payload.body, !.i = 1, !.pc = "matches"])
  /\ UNCHANGED <<pipelineVars, slugRun, scoreRun, buildRun, siteRun>>

\* one turn of for (const competition of competitions)
ArchiveMatches(payload) ==
  /\ fetchRun.script = "fetch-archive" /\ fetchRun.pc = "matches"
  /\ issued(fetchRun) \subseteq fetchRun.inFlight
  /\ LET competition == fetchRun.list[fetchRun.i]
         competitionName == safeStr(Str(competition.competition_name))
         seasonName == safeStr(Str(competition.season_name))
         skipped == competitionName = <<>> \/ seasonName = <<>>
         entry == EntryGet(fetchRun.out.entries, ArchiveEntry(competitionName, seasonName))
         fetched == [entry EXCEPT !.statsbomb = payload.body,
                       !.sources = IF Includes(@, "statsbomb") THEN @
                                   ELSE Append(@, "statsbomb")]
         failed == [entry EXCEPT !.sources = Append(@, "statsbomb")]
         atEnd == fetchRun.i = Len(fetchRun.list)
     IN fetchRun' = settled([fetchRun EXCEPT
          !.out.entries = IF skipped THEN @
                          ELSE EntrySet(@, IF payload.ok THEN fetched ELSE failed),
          !.warnings = IF ~skipped /\ ~payload.ok
                         THEN Append(@, <<"statsbomb", competitionName>>) ELSE @,
          !.out.statsbomb = IF atEnd THEN "ok" ELSE @,
          !.pc = IF atEnd THEN "openfootball" ELSE "matches",
          !.list = IF atEnd THEN fetchRun.out.openfootballList ELSE @,
          !.i = IF atEnd THEN 1 ELSE @ + 1])
  /\ UNCHANGED <<pipelineVars, slugRun, scoreRun, buildRun, siteRun>>

\* if (!source?.url) continue, else the request for the source inside its try
ArchiveSource(payload) ==
  /\ fetchRun.script = "fetch-archive" /\ fetchRun.pc = "openfootball"
  /\ fetchRun.list # <<>>
  /\ issued(fetchRun) \subseteq fetchRun.inFlight
  /\ LET source == fetchRun.list[fetchRun.i]
         skipped == source.url = ""
         competitionName == safeStr(Str(source.competition))
         seasonName == safeStr(Str(source.season))
         entry == EntryGet(fetchRun.out.entries, ArchiveEntry(competitionName, seasonName))
         fetched == [entry EXCEPT !.openfootball = payload.body,
                       !.sources = IF Includes(@, "openfootball") THEN @
                                   ELSE Append(@, "openfootball")]
         atEnd == fetchRun.i = Len(fetchRun.list)
     IN fetchRun' = settled([fetchRun EXCEPT
          !.out.entries = IF skipped \/ ~payload.ok THEN @ ELSE EntrySet(@, fetched),
          !.warnings = IF ~skipped /\ ~payload.ok
                         THEN Append(@, <<"openfootball", source.url>>) ELSE @,
          !.out.openfootball = IF atEnd THEN "ok" ELSE @,
          !.pc = IF atEnd THEN "write" ELSE "openfootball",
          !.i = IF atEnd THEN 1 ELSE @ + 1])
  /\ UNCHANGED <<pipelineVars, slugRun, scoreRun, buildRun, siteRun>>

\* openfootballList.length is 0: the loop over the sources is left out
ArchiveNoSources ==
  /\ fetchRun.script = "fetch-archive" /\ fetchRun.pc = "openfootball"
  /\ fetchRun.list = <<>>
  /\ fetchRun' = [fetchRun EXCEPT !.pc = "write"]
  /\ UNCHANGED <<pipelineVars, slugRun, scoreRun, buildRun, siteRun>>

\* the comparator of entriesArray.sort
EntryAfter(a, b) ==
  LET comp == localeCompare(a.competition, b.competition)
  IN IF comp # 0 THEN comp > 0 ELSE localeCompare(a.season, b.season) > 0

RECURSIVE InsertEntry(_, _)
InsertEntry(sorted, entry) ==
  IF sorted = <<>> THEN <<entry>>
  ELSE IF EntryAfter(Head(sorted), entry) THEN <<entry>> \o sorted
  ELSE <<Head(sorted)>> \o InsertEntry(Tail(sorted), entry)

RECURSIVE SortEntries(_)
SortEntries(entries) ==
  IF entries = <<>> THEN <<>>
  ELSE InsertEntry(SortEntries(SubSeq(entries, 1, Len(entries) - 1)), entries[Len(entries)])

\* the sort and the writeFile at the end of main
ArchiveWrite ==
  /\ fetchRun.script = "fetch-archive" /\ fetchRun.pc = "write"
  /\ fetchRun' = [fetchRun EXCEPT !.pc = "done", !.exit = <<0>>,
                    !.out.entries = SortEntries(@), !.files = {"archive.json"}]
  /\ UNCHANGED <<pipelineVars, slugRun, scoreRun, buildRun, siteRun>>

\* build-current: the token, then main with the competitions of the config
BuildCurrentStart ==
  /\ fetchRun.script = "build-current" /\ fetchRun.pc = "start"
  /\ fetchRun' = IF ~fetchRun.token THEN fatal(fetchRun)
                 ELSE [fetchRun EXCEPT
                         !.pc = IF fetchRun.list = <<>> THEN "write" ELSE "standings"]
  /\ UNCHANGED <<pipelineVars, slugRun, scoreRun, buildRun, siteRun>>

\* buildCompetition: await safe(() => fetchFD(...)) for the standings, the
\* matches and the scorers, null for a request that fails; after the third
\* out.competitions[c.code] is set
BuildCurrentFetch(payload) ==
  /\ fetchRun.script = "build-current"
  /\ fetchRun.pc \in {"standings", "matches", "scorers"}
  /\ issued(fetchRun) \subseteq fetchRun.inFlight
  /\ LET got == Append(fetchRun.out.got, IF payload.ok THEN payload.body ELSE <<>>)
         code == fetchRun.list[fetchRun.i].code
     IN fetchRun' = settled(
          IF fetchRun.pc = "standings"
            THEN [fetchRun EXCEPT !.pc = "matches", !.out.got = got]
          ELSE IF fetchRun.pc = "matches"
            THEN [fetchRun EXCEPT !.pc = "scorers", !.out.got = got]
          ELSE [fetchRun EXCEPT
                  !.pc = IF fetchRun.i < Len(fetchRun.list) THEN "standings" ELSE "write",
                  !.i = @ + 1,
                  !.out.got = <<>>,
                  !.out.competitions =
                     {c \in @ : c.code # code} \cup {[code |-> code, data |-> got]}])
  /\ UNCHANGED <<pipelineVars, slugRun, scoreRun, buildRun, siteRun>>

\* writeJSON(OUT_PATH, out)
BuildCurrentWrite ==
  /\ fetchRun.script = "build-current" /\ fetchRun.pc = "write"
  /\ fetchRun' = [fetchRun EXCEPT !.pc = "done", !.exit = <<0>>,
                    !.files = {"current.json"}]
  /\ UNCHANGED <<pipelineVars, slugRun, scoreRun, buildRun, siteRun>>

\* the lists the API gives: no competition twice
CompetitionLists ==
  {list \in SeqsUpTo(ListedCompetitions, MaxComps) :
     \A a, b \in 1..Len(list) : list[a] = list[b] => a = b}

FetchNext ==
  \/ FootballDataStart
  \/ FetchRequest
  \/ \E payload \in {Failure} \cup {Response(list) : list \in CompetitionLists} :
       FootballDataList(payload)
  \/ \E payload \in {Failure, Response(MatchesPayload)} : FootballDataMatches(payload)
  \/ \E payload \in {Failure, Response(<<"table">>)} : FootballDataStandings(payload)
  \/ \E payload \in {Failure, Response(ScorersPayload)} : FootballDataScorers(payload)
  \/ FootballDataWrite
  \/ ArchiveStart
  \/ \E payload \in {Failure} \cup {Response(list) : list \in SeqsUpTo(StatsbombCompetitions, MaxComps)} :
       ArchiveCompetitions(payload)
  \/ \E payload \in {Failure, Response(MatchesPayload)} : ArchiveMatches(payload)
  \/ \E payload \in {Failure, Response(MatchesPayload)} : ArchiveSource(payload)
  \/ ArchiveNoSources
  \/ ArchiveWrite
  \/ BuildCurrentStart
  \/ \E payload \in {Failure, Response(MatchesPayload)} : BuildCurrentFetch(payload)
  \/ BuildCurrentWrite

FetchSpec == FetchInit /\ [][FetchNext]_vars

\* fetch-football-data went through its competitions
FootballDataFetched ==
  /\ fetchRun.script = "fetch-football-data"
  /\ fetchRun.pc \in {"write", "done"}
  /\ fetchRun.list # <<>>

(* C18: in fetch-football-data every competition gets its slice of the    *)
(* fixtures and of the standings whatever failed before it, and a failed  *)
(* fixtures, standings or scorers request of a competition leaves an      *)
(* error field in a slice of that competition.                            *)
C18_FailuresRecorded ==
  FootballDataFetched =>
    LET out == fetchRun.out
    IN /\ Len(out.fixturesOutput) = Len(fetchRun.list)
       /\ Len(out.standingsOutput) = Len(fetchRun.list)
       /\ \A i \in Indices(fetchRun.list) :
            LET name == fetchRun.list[i].name
            IN /\ out.fixturesOutput[i].competition.id = fetchRun.list[i].id
               /\ out.standingsOutput[i].competition.id = fetchRun.list[i].id
               /\ Includes(fetchRun.warnings, <<"fixtures", name>>)
                    => out.fixturesOutput[i].error # NoError
               /\ Includes(fetchRun.warnings, <<"standings", name>>)
                    => out.standingsOutput[i].error # NoError
               /\ Includes(fetchRun.warnings, <<"fantasy", name>>)
                    => \/ out.fixturesOutput[i].error # NoError
                       \/ out.standingsOutput[i].error # NoError
                       \/ \E k \in Indices(out.fantasyPlayers) :
                            /\ out.fantasyPlayers[k].competition.id = fetchRun.list[i].id
                            /\ "error" \in DOMAIN out.fantasyPlayers[k]

(* C19: a fetch script that has its token ends with exit status 0 and     *)
(* its output files written, whichever of its requests failed.            *)
C19_FetchNeverAborts ==
  (fetchRun.pc = "done" /\ fetchRun.token) =>
    /\ fetchRun.exit = <<0>>
    /\ fetchRun.script = "fetch-football-data"
         => fetchRun.files = {"fixtures.json", "standings.json", "fantasy.json"}
    /\ fetchRun.script = "fetch-archive" => fetchRun.files = {"archive.json"}

----------------------------------------------------------------------------
(* generate-all: the commands it runs, one execSync after another.        *)
(* buildRun holds the script (generate-all.mjs, or the shorter            *)
(* generate-all of part_007), whether FETCH_PLAYERS is "1", the commands  *)
(* started, the exit status of those that ended (empty for a command a    *)
(* signal ended), whether a command is running, and the exit status of    *)
(* generate-all itself, empty while it runs.                              *)

\* the run(...) lines of scripts/generate-all.mjs
generateAllSteps(fetchPlayers) ==
  <<"generate-core">>
    \o (IF fetchPlayers THEN <<"fetch-players">> ELSE <<>>)
    \o <<"generate-players", "generate-players-index", "generate-positions",
         "generate-teams", "generate-competitions", "generate-learn-topics",
         "generate-glossary", "generate-feed", "generate-sitemap", "quality-gate">>

\* the run(...) lines of the generate-all of part_007
shortSteps ==
  <<"generate-core", "generate-players", "generate-players-index",
    "generate-sitemap", "quality-gate">>

StepsOf(run) ==
  IF run.script = "generate-all.mjs" THEN generateAllSteps(run.fetchPlayers)
  ELSE shortSteps

\* how a command can end: status 0, 1 or 2, or killed by a signal
Endings == {<<0>>, <<1>>, <<2>>, <<>>}

BuildInit ==
  /\ \E script \in {"generate-all.mjs", "part_007"}, fetchPlayers \in BOOLEAN :
       buildRun = [script |-> script, fetchPlayers |-> fetchPlayers,
                   started |-> <<>>, ended |-> <<>>, running |-> FALSE, exit |-> <<>>]
  /\ playersFile = Idle /\ before = Idle /\ last = Idle /\ pc = "idle"
  /\ slugRun = Idle /\ scoreRun = Idle /\ fetchRun = Idle /\ siteRun = Idle

\* execSync going on after a command that failed
throwsNever(ending) == FALSE

\* execSync throws when the command ends with a status that is not 0
throws(ending) == ending # <<0>>

\* run(cmd): execSync starts the command
StartStep ==
  /\ buildRun.exit = <<>> /\ ~buildRun.running
  /\ Len(buildRun.started) < Len(StepsOf(buildRun))
  /\ buildRun' = [buildRun EXCEPT
                    !.started = Append(@, StepsOf(buildRun)[Len(@) + 1]),
                    !.running = TRUE]
  /\ UNCHANGED <<pipelineVars, slugRun, scoreRun, fetchRun, siteRun>>

\* the command ends: execSync returns, or throws and nothing catches it
StepEnds(ending) ==
  /\ buildRun.exit = <<>> /\ buildRun.running
  /\ buildRun' = [buildRun EXCEPT
                    !.ended = Append(@, ending),
                    !.running = FALSE,
                    !.exit = IF throws(ending) THEN <<1>> ELSE @]
  /\ UNCHANGED <<pipelineVars, slugRun, scoreRun, fetchRun, siteRun>>

\* console.log("generate-all complete"): the script ends
BuildComplete ==
  /\ buildRun.exit = <<>> /\ ~buildRun.running
  /\ Len(buildRun.started) = Len(StepsOf(buildRun))
  /\ buildRun' = [buildRun EXCEPT !.exit = <<0>>]
  /\ UNCHANGED <<pipelineVars, slugRun, scoreRun, fetchRun, siteRun>>

BuildNext ==
  \/ StartStep
  \/ \E ending \in Endings : StepEnds(ending)
  \/ BuildComplete

BuildSpec == BuildInit /\ [][BuildNext]_vars

(* C20: generate-all starts its commands one at a time in the listed      *)
(* order; a command is started only after every command before it ended   *)
(* with status 0, so after a failure no later command (sitemap and        *)
(* quality gate included) is started and generate-all exits non-zero; it  *)
(* exits 0 only after all of them ended with status 0.                    *)
C20_FailFast ==
  LET steps == StepsOf(buildRun)
      started == buildRun.started
      ended == buildRun.ended
  IN /\ Len(started) <= Len(steps)
     /\ \A k \in Indices(started) : started[k] = steps[k]
     /\ Len(started) = Len(ended) + (IF buildRun.running THEN 1 ELSE 0)
     /\ \A k \in Indices(ended) : k < Len(started) => ended[k] = <<0>>
     /\ \A k \in Indices(ended) :
          ended[k] # <<0>> => buildRun.exit # <<>> /\ buildRun.exit # <<0>>
     /\ buildRun.exit = <<0>> =>
          Len(ended) = Len(steps) /\ \A k \in Indices(ended) : ended[k] = <<0>>
     /\ \A k \in Indices(started) :
          started[k] = "quality-gate" =>
            /\ k = Len(steps)
            /\ \A j \in 1..(k - 1) : ended[j] = <<0>>

\* generate-positions failed: sitemap and quality gate never started
C20_Witness ==
  /\ buildRun.script = "generate-all.mjs"
  /\ buildRun.exit = <<1>>
  /\ Len(buildRun.started) = Len(buildRun.ended)
  /\ buildRun.started[Len(buildRun.started)] = "generate-positions"
  /\ buildRun.ended[Len(buildRun.ended)] = <<2>>

\* every command succeeded, the quality gate last
C20_WitnessComplete ==
  /\ buildRun.script = "generate-all.mjs" /\ buildRun.fetchPlayers
  /\ buildRun.exit = <<0>>
  /\ buildRun.started[Len(buildRun.started)] = "quality-gate"

----------------------------------------------------------------------------
(* Further properties of the workflow on data/players.json *)

\* what fetch-players made of the source it read last
CleanedOfLast == cleanPlayers(normalizePlayers([kind |-> last.kind, rows |-> last.rows]))

(* C21: a fetch-players run whose source failed, or gave no valid player  *)
(* record, leaves the players of data/players.json as they were.          *)
C21_FailedFetchKeepsPlayers ==
  (last.op = "fetch" /\ (last.kind = "error" \/ CleanedOfLast = <<>>))
    => playersFile.players = before.players

\* the slug of the first of id, slug and code that has one, else of the name
ExpectedId(record) ==
  LET slugOf(f) == sanitizeId(Get(record, f))
      name == OrElse(OrElse(Get(record, "name"), Get(record, "full_name")),
                     Get(record, "fullName"))
  IN IF slugOf("id") # <<>> THEN slugOf("id")
     ELSE IF slugOf("slug") # <<>> THEN slugOf("slug")
     ELSE IF slugOf("code") # <<>> THEN slugOf("code")
     ELSE sanitizeId(name)

(* C24: normalizeRecord gives a source row the slug of the first of its   *)
(* fields id, slug, code whose slug is not empty, and the slug of its     *)
(* name (name, full_name, fullName) only when none of them has one.       *)
C24_IdFromFirstSluggableField ==
  last.op = "fetch" =>
    \A j \in Indices(last.rows) :
      normalizeRecord(last.rows[j]).id = Str(ExpectedId(last.rows[j]))

(* C27: a fetch-players or sync-players-from-fantasy run that writes      *)
(* data/players.json leaves competitions and history as they were.        *)
C27_PassthroughKept ==
  (Synced \/ Fetched) =>
    /\ playersFile.competitions = before.competitions
    /\ playersFile.history = before.history

\* fetch-players replaced the players of a file that holds competitions
\* and history
C27_Witness ==
  /\ Fetched
  /\ playersFile.players # before.players
  /\ before.competitions = "data" /\ before.history = "data"
  /\ playersFile.competitions = "data"

----------------------------------------------------------------------------
(* Further properties of the fetch scripts *)

(* C22: without its API token fetch-football-data sends no request,       *)
(* writes none of fixtures.json, standings.json and fantasy.json, and     *)
(* ends with a non-zero exit status.                                      *)
C22_NoTokenFailsFast ==
  (fetchRun.script = "fetch-football-data" /\ ~fetchRun.token) =>
    /\ fetchRun.requests = 0 /\ fetchRun.inFlight = {}
    /\ fetchRun.files = {}
    /\ fetchRun.pc \in {"start", "done"}
    /\ fetchRun.pc = "done" => (fetchRun.exit # <<>> /\ fetchRun.exit # <<0>>)

\* fetch-football-data ended for want of a token
C22_Witness ==
  /\ fetchRun.script = "fetch-football-data" /\ ~fetchRun.token
  /\ fetchRun.pc = "done" /\ fetchRun.exit = <<1>>

(* C25: in fetch-football-data, fetch-archive and build-current a request *)
(* is sent only when no request is in flight, so that at most one is in   *)
(* flight at any moment.                                                  *)
C25_OneRequestInFlight ==
  [][/\ fetchRun'.requests > fetchRun.requests => fetchRun.inFlight = {}
     /\ Cardinality(fetchRun'.inFlight) <= 1]_vars

\* the request for a second unit of a loop is in flight, in each script
C25_Witness ==
  /\ fetchRun.script = "fetch-football-data"
  /\ fetchRun.i = 2 /\ fetchRun.inFlight = {<<"standings", 2>>}

C25_WitnessArchive ==
  /\ fetchRun.script = "fetch-archive"
  /\ fetchRun.i = 2 /\ fetchRun.inFlight = {<<"openfootball", 2>>}
  /\ fetchRun.requests >= 3

C25_WitnessCurrent ==
  /\ fetchRun.script = "build-current"
  /\ fetchRun.i = 2 /\ fetchRun.inFlight = {<<"scorers", 2>>}
  /\ fetchRun.requests = 6

(* C26: a step of fetch-football-data or fetch-archive that works on one  *)
(* unit leaves every slice that an earlier unit put into the output as it *)
(* was (in fetch-archive: when no unit is twice in the list at hand).     *)
C26_EarlierSlicesKept ==
  [][/\ (fetchRun.script = "fetch-football-data" /\ fetchRun.pc \in {"matches", "standings", "scorers"})
          => /\ \A k \in Indices(fetchRun.out.fixturesOutput) :
                  fetchRun'.out.fixturesOutput[k] = fetchRun.out.fixturesOutput[k]
             /\ \A k \in Indices(fetchRun.out.standingsOutput) :
                  fetchRun'.out.standingsOutput[k] = fetchRun.out.standingsOutput[k]
             /\ \A k \in Indices(fetchRun.out.fantasyPlayers) :
                  fetchRun'.out.fantasyPlayers[k] = fetchRun.out.fantasyPlayers[k]
     /\ (/\ fetchRun.script = "fetch-archive"
         /\ fetchRun.pc \in {"matches", "openfootball"}
         /\ \A a, b \in Indices(fetchRun.list) : fetchRun.list[a] = fetchRun.list[b] => a = b)
          => \A k \in Indices(fetchRun.out.entries) :
                fetchRun'.out.entries[k] = fetchRun.out.entries[k]]_vars

----------------------------------------------------------------------------
(* resolve-generated-conflicts.sh, command by command under set -e.       *)
(* siteRun holds the script, whether the directory is a git repository,   *)
(* the conflicted files git diff lists (each with its path and whether    *)
(* the index has an incoming version of it), the place in the loop, the   *)
(* arrays resolved and manual, the paths staged with their incoming       *)
(* version, the files listed for manual resolution, whether generate-all  *)
(* ran, and the exit status, empty while the script runs.                  *)

\* the longest list of conflicted files
MaxConflicts == 2

\* a path: its directories, the name of the file and its extension
File(dirs, name, ext) == [dirs |-> dirs, name |-> name, ext |-> ext]

\* conflicted files: generated and not, one that the incoming branch deleted
ConflictFiles ==
  { [path |-> File(<<>>, "index", "html"), theirs |-> TRUE],
    [path |-> File(<<"players", "al">>, "index", "html"), theirs |-> TRUE],
    [path |-> File(<<"players", "bo">>, "index", "html"), theirs |-> FALSE],
    [path |-> File(<<"players">>, "al", "html"), theirs |-> TRUE],
    [path |-> File(<<>>, "sitemap", "xml"), theirs |-> TRUE],
    [path |-> File(<<"data">>, "fantasy", "json"), theirs |-> TRUE],
    [path |-> File(<<"data">>, "players", "json"), theirs |-> TRUE],
    [path |-> File(<<"scripts">>, "merge", "mjs"), theirs |-> TRUE],
    [path |-> File(<<>>, "compare", "html"), theirs |-> FALSE] }

\* the case patterns of is_generated_path; * matches slashes too
is_generated_path(f) ==
  \/ f.name = "index" /\ f.ext = "html"
  \/ f.dirs = <<>> /\ f.name \in {"feed", "sitemap"} /\ f.ext = "xml"
  \/ f.dirs # <<>> /\ f.dirs[1] = "players" /\ f.ext = "html"
  \/ /\ f.dirs = <<"data">> /\ f.ext = "json"
     /\ f.name \in {"fixtures", "standings", "archive", "fantasy"}

ResolveInit ==
  /\ \E git \in BOOLEAN, conflicts \in SeqsUpTo(ConflictFiles, MaxConflicts) :
       /\ \A a, b \in Indices(conflicts) : conflicts[a] = conflicts[b] => a = b
       /\ siteRun = [script |-> "resolve-generated-conflicts", git |-> git,
                  conflicts |-> conflicts, i |-> 1, pc |-> "start",
                  resolved |-> <<>>, manual |-> <<>>, staged |-> {},
                  listed |-> <<>>, generated |-> FALSE, exit |-> <<>>]
  /\ playersFile = Idle /\ before = Idle /\ last = Idle /\ pc = "idle"
  /\ slugRun = Idle /\ scoreRun = Idle /\ fetchRun = Idle /\ buildRun = Idle

\* git rev-parse, then mapfile of the conflicted files
ResolveStart ==
  /\ siteRun.pc = "start"
  /\ siteRun' = IF ~siteRun.git THEN [siteRun EXCEPT !.pc = "done", !.exit = <<1>>]
                ELSE IF siteRun.conflicts = <<>>
                  THEN [siteRun EXCEPT !.pc = "done", !.exit = <<0>>]
                ELSE [siteRun EXCEPT !.pc = "loop"]
  /\ UNCHANGED <<pipelineVars, slugRun, scoreRun, fetchRun, buildRun>>

\* one turn of for file in "${conflicts[@]}": git checkout --theirs fails
\* for a path without an incoming version and set -e ends the script
ResolveFile ==
  /\ siteRun.pc = "loop"
  /\ LET file == siteRun.conflicts[siteRun.i]
         next == IF siteRun.i = Len(siteRun.conflicts) THEN "report" ELSE "loop"
     IN siteRun' =
          IF ~is_generated_path(file.path)
            THEN [siteRun EXCEPT !.manual = Append(@, file.path), !.i = @ + 1, !.pc = next]
          ELSE IF ~file.theirs
            THEN [siteRun EXCEPT !.pc = "done", !.exit = <<1>>]
          ELSE [siteRun EXCEPT !.staged = @ \cup {file.path},
                               !.resolved = Append(@, file.path),
                               !.i = @ + 1, !.pc = next]
  /\ UNCHANGED <<pipelineVars, slugRun, scoreRun, fetchRun, buildRun>>

\* the list of the files left for manual resolution and exit 2
ResolveReport ==
  /\ siteRun.pc = "report"
  /\ siteRun' = IF siteRun.manual # <<>>
                  THEN [siteRun EXCEPT !.listed = siteRun.manual,
                                       !.pc = "done", !.exit = <<2>>]
                ELSE [siteRun EXCEPT !.pc = "generate"]
  /\ UNCHANGED <<pipelineVars, slugRun, scoreRun, fetchRun, buildRun>>

\* node scripts/generate-all.mjs, then git add -A unless it failed
ResolveGenerate(status) ==
  /\ siteRun.pc = "generate"
  /\ siteRun' = [siteRun EXCEPT !.generated = TRUE, !.pc = "done", !.exit = <<status>>]
  /\ UNCHANGED <<pipelineVars, slugRun, scoreRun, fetchRun, buildRun>>

ResolveNext ==
  \/ ResolveStart
  \/ ResolveFile
  \/ ResolveReport
  \/ \E status \in {0, 1} : ResolveGenerate(status)

ResolveSpec == ResolveInit /\ [][ResolveNext]_vars

\* the conflicted files that are generated paths, and those that are not
ConflictsWhere(generated) ==
  {siteRun.conflicts[k].path : k \in {j \in Indices(siteRun.conflicts) :
       is_generated_path(siteRun.conflicts[j].path) = generated}}

(* C23: when resolve-generated-conflicts.sh ends in a repository with     *)
(* conflicts, every conflicted generated path is staged with its incoming *)
(* version; if a conflicted file is not a generated path those files are  *)
(* listed, the exit status is not zero and generate-all did not run; and  *)
(* generate-all ran only if no conflicted file was left to resolve by     *)
(* hand.                                                                   *)
C23_GeneratedResolvedManualStops ==
  (siteRun.pc = "done" /\ siteRun.git /\ siteRun.conflicts # <<>>) =>
    /\ ConflictsWhere(TRUE) \subseteq siteRun.staged
    /\ ConflictsWhere(FALSE) # {}
         => /\ Range(siteRun.listed) = ConflictsWhere(FALSE)
            /\ siteRun.exit # <<0>>
            /\ ~siteRun.generated
    /\ siteRun.generated => ConflictsWhere(FALSE) = {}

----------------------------------------------------------------------------
(* generate-core, page by page.  The source holds three versions of it:   *)
(* scripts/generate-core.mjs, the one of part_006 that reads the learn    *)
(* topics, and the earlier one at the end of part_006 that has no list of *)
(* manual pages.  siteRun holds the version, the layout read (as it       *)
(* should be, with a heading of its own, or with a placeholder fill does  *)
(* not know), whether data/learn-topics.json parses, the pages, the place *)
(* in the loop, the files on disk at the start and now, the paths         *)
(* written, the count of pages skipped and the exit status.               *)

\* const MANUAL_PAGES = new Set(["compare.html", "contact.html"])
MANUAL_PAGES == {"compare.html", "contact.html"}

\* the out of every entry of PAGES, or of buildPages(...)
corePages(script) ==
  IF script = "part_006:544" THEN <<"index.html", "compare.html">>
  ELSE <<"index.html", "tools/index.html", "learn/index.html", "about/index.html",
         "contact.html", "privacy/index.html", "terms/index.html">>

CoreInit ==
  /\ \E script \in {"generate-core.mjs", "part_006", "part_006:544"},
        layout \in {"ok", "heading", "placeholder"},
        learn \in BOOLEAN,
        disk \in [MANUAL_PAGES -> {"absent", "manual"}] :
       /\ script # "part_006" => learn
       /\ siteRun = [script |-> script, layout |-> layout, learn |-> learn,
                     pages |-> corePages(script), i |-> 1, pc |-> "start",
                     initial |-> disk, disk |-> disk, written |-> {},
                     skipped |-> 0, exit |-> <<>>]
  /\ playersFile = Idle /\ before = Idle /\ last = Idle /\ pc = "idle"
  /\ slugRun = Idle /\ scoreRun = Idle /\ fetchRun = Idle /\ buildRun = Idle

\* main up to the loop: the layout and, in part_006, JSON.parse(learnRaw)
CoreStart ==
  /\ siteRun.script \in {"generate-core.mjs", "part_006", "part_006:544"}
  /\ siteRun.pc = "start"
  /\ siteRun' = IF siteRun.learn THEN [siteRun EXCEPT !.pc = "pages"]
                ELSE [siteRun EXCEPT !.pc = "done", !.exit = <<1>>]
  /\ UNCHANGED <<pipelineVars, slugRun, scoreRun, fetchRun, buildRun>>

\* one turn of for (const page of PAGES): the manual page skipped, the
\* checks of the filled layout, the writeFile
CorePage ==
  /\ siteRun.script \in {"generate-core.mjs", "part_006", "part_006:544"}
  /\ siteRun.pc = "pages"
  /\ LET outRel == siteRun.pages[siteRun.i]
         guarded == siteRun.script # "part_006:544"
         next == IF siteRun.i = Len(siteRun.pages) THEN "done" ELSE "pages"
         exit == IF siteRun.i = Len(siteRun.pages) THEN <<0>> ELSE <<>>
     IN siteRun' =
          IF guarded /\ outRel \in MANUAL_PAGES
            THEN [siteRun EXCEPT !.skipped = @ + 1, !.i = @ + 1,
                                 !.pc = next, !.exit = exit]
          ELSE IF guarded /\ siteRun.layout # "ok"
            THEN [siteRun EXCEPT !.pc = "done", !.exit = <<1>>]
          ELSE [siteRun EXCEPT
                  !.disk = [p \in DOMAIN @ \cup {outRel} |-> IF p = outRel THEN "generated" ELSE @[p]],
                  !.written = @ \cup {outRel},
                  !.i = @ + 1, !.pc = next, !.exit = exit]
  /\ UNCHANGED <<pipelineVars, slugRun, scoreRun, fetchRun, buildRun>>

CoreNext == CoreStart \/ CorePage

CoreSpec == CoreInit /\ [][CoreNext]_vars

(* C28: in every run of generate-core, compare.html and contact.html stay *)
(* as they were on disk and neither is among the paths written.           *)
C28_ManualPagesUntouched ==
  /\ siteRun.written \cap MANUAL_PAGES = {}
  /\ \A p \in MANUAL_PAGES : siteRun.disk[p] = siteRun.initial[p]

----------------------------------------------------------------------------
(* The identity slug across scripts *)

(* C29: for every player name (here: one that begins and ends with a      *)
(* letter), the id merge.mjs gives a seed player that has only that name  *)
(* equals the id under which sync-players-from-fantasy keys a feed row    *)
(* that has only that name.                                               *)
C29_SameIdAcrossScripts ==
  (slugRun.fn = "slugify" /\ slugRun.raw # <<>>
     /\ slugRun.raw[1] \in {"a", "A"} /\ slugRun.raw[Len(slugRun.raw)] \in {"a", "A"}) =>
    /\ ensureId([name |-> Str(slugRun.raw)]).id = Str(slugRun.out)
    /\ normalizePlayerFromFantasy([name |-> Str(slugRun.raw)]).id = Str(slugRun.out)

----------------------------------------------------------------------------
(* The player pages, the sitemap and the quality gate, in the order of    *)
(* generate-all: generate-players page by page, then generate-sitemap,    *)
(* then Rule 4 of the quality gate; a script that throws ends the run.    *)
(* siteRun holds the players of data/players.json, the place in the loop, *)
(* the pages written (path and canonical), the locs of the sitemap, the   *)
(* failures of the gate and the exit status.  The templates are taken to  *)
(* resolve and to hold one heading; a URL is the section after the        *)
(* origin, the slug after it and whether a slash ends it.                 *)

\* the longest players list
MaxPages == 2

\* players of data/players.json: ids that give the same slug, a number, an
\* id without a slug, no id, and a name that leaves a placeholder in the page
PagePlayers ==
  { [id |-> Str(<<"a", "l">>), name |-> Str(Al)],
    [id |-> Str(<<"A", "L", " ">>), name |-> Str(Al)],
    [id |-> Num(7), name |-> Str(Bo)],
    [id |-> Str(<<"!">>), name |-> Str(Bo)],
    [name |-> Str(Bo)],
    [id |-> Str(<<"b", "o">>), name |-> Str(<<"{", "{", "x", "}", "}">>)] }

Url(section, slug, slash) == [section |-> section, slug |-> slug, slash |-> slash]

\* the directory of a page named by the id as it is in the file
playerIdUnsanitized(p) == safeStr(Get(p, "id"))

\* rawId = safeStr(p?.id), id = sanitizeId(rawId), empty for a player skipped
playerId(p) ==
  LET rawId == safeStr(Get(p, "id"))
  IN IF rawId = <<>> THEN <<>> ELSE sanitizeId(Str(rawId))

\* url.endsWith("/") ? url : `${url}/`
ensureTrailingSlash(url) == IF url.slash THEN url ELSE [url EXCEPT !.slash = TRUE]

\* finalHtml.match(/{{[^}]+}}/g) on the text a player puts into the page
leaksPlaceholder(s) ==
  \E a, b \in 1..Len(s) :
    /\ a + 2 < b /\ b < Len(s)
    /\ s[a] = "{" /\ s[a + 1] = "{" /\ s[b] = "}" /\ s[b + 1] = "}"
    /\ \A k \in (a + 2)..(b - 1) : s[k] # "}"

\* CORE after normalizePath
CoreUrls ==
  <<Url("", <<>>, TRUE), Url("compare", <<>>, TRUE), Url("tools", <<>>, TRUE),
    Url("learn", <<>>, TRUE), Url("about", <<>>, TRUE), Url("contact", <<>>, TRUE),
    Url("privacy", <<>>, TRUE), Url("terms", <<>>, TRUE), Url("players", <<>>, TRUE),
    Url("positions", <<>>, TRUE), Url("teams", <<>>, TRUE),
    Url("competitions", <<>>, TRUE), Url("glossary", <<>>, TRUE)>>

\* the keys of slugToPlayer in the order they were set
RECURSIVE slugToPlayer(_)
slugToPlayer(players) ==
  IF players = <<>> THEN <<>>
  ELSE LET keys == slugToPlayer(SubSeq(players, 1, Len(players) - 1))
           slug == sanitizeId(Get(players[Len(players)], "id"))
       IN IF slug = <<>> \/ Includes(keys, slug) THEN keys ELSE Append(keys, slug)

\* Array.from(slugToPlayer.keys()).sort((a, b) => a.localeCompare(b))
RECURSIVE SortSlugs(_)
SortSlugs(keys) ==
  IF keys = {} THEN <<>>
  ELSE LET first == CHOOSE x \in keys : \A y \in keys : localeCompare(x, y) <= 0
       IN <<first>> \o SortSlugs(keys \ {first})

\* if (!seen.has(loc)) { seen.add(loc); items.push(...) } for each loc
RECURSIVE pushUnseen(_, _)
pushUnseen(items, locs) ==
  IF locs = <<>> THEN items
  ELSE pushUnseen(IF Includes(items, Head(locs)) THEN items
                  ELSE Append(items, Head(locs)), Tail(locs))

\* the core pages and the player pages of the sitemap; the groups after
\* them (positions, teams, competitions, learn) are under other sections
sitemapItems(players) ==
  LET slugs == SortSlugs(Range(slugToPlayer(players)))
  IN pushUnseen(pushUnseen(<<>>, CoreUrls),
                [k \in 1..Len(slugs) |-> Url("players", slugs[k], TRUE)])

\* expectedCanonical for players/{id}/index.html
expectedCanonical(relPath) ==
  IF relPath.dir = "players" /\ relPath.id # <<>> /\ relPath.file = "index.html"
    THEN Url("players", relPath.id, TRUE)
  ELSE Url("unknown", <<>>, FALSE)

SiteInit ==
  /\ \E players \in SeqsUpTo(PagePlayers, MaxPages) :
       siteRun = [script |-> "generate-players", players |-> players, i |-> 1,
                  pc |-> "start", pages |-> {}, sitemap |-> <<>>,
                  failures |-> {}, exit |-> <<>>]
  /\ playersFile = Idle /\ before = Idle /\ last = Idle /\ pc = "idle"
  /\ slugRun = Idle /\ scoreRun = Idle /\ fetchRun = Idle /\ buildRun = Idle

\* main of generate-players up to the loop
PlayersStart ==
  /\ siteRun.script = "generate-players" /\ siteRun.pc = "start"
  /\ siteRun' = IF siteRun.players = <<>>
                  THEN [siteRun EXCEPT !.pc = "done", !.exit = <<1>>]
                ELSE [siteRun EXCEPT !.pc = "pages"]
  /\ UNCHANGED <<pipelineVars, slugRun, scoreRun, fetchRun, buildRun>>

\* one turn of for (const p of players)
PlayerPage ==
  /\ siteRun.script = "generate-players" /\ siteRun.pc = "pages"
  /\ LET p == siteRun.players[siteRun.i]
         id == playerId(p)
         name == OrElse(Str(safeStr(Get(p, "name"))), Str(<<"P", "l", "a", "y", "e", "r">>))
         outPath == [dir |-> "players", id |-> id, file |-> "index.html"]
         canonical == ensureTrailingSlash(Url("players", id, FALSE))
         next == IF siteRun.i = Len(siteRun.players) THEN "sitemap" ELSE "pages"
     IN siteRun' =
          IF id = <<>> THEN [siteRun EXCEPT !.i = @ + 1, !.pc = next]
          ELSE IF leaksPlaceholder(name.s)
            THEN [siteRun EXCEPT !.pc = "done", !.exit = <<1>>]
          ELSE [siteRun EXCEPT
                  !.pages = {page \in @ : page.path # outPath}
                              \cup {[path |-> outPath, canonical |-> canonical]},
                  !.i = @ + 1, !.pc = next]
  /\ UNCHANGED <<pipelineVars, slugRun, scoreRun, fetchRun, buildRun>>

\* main of generate-sitemap
GenerateSitemap ==
  /\ siteRun.script = "generate-players" /\ siteRun.pc = "sitemap"
  /\ siteRun' = [siteRun EXCEPT !.sitemap = sitemapItems(siteRun.players), !.pc = "gate"]
  /\ UNCHANGED <<pipelineVars, slugRun, scoreRun, fetchRun, buildRun>>

\* Rule 4 of the quality gate on the pages written
QualityGate ==
  /\ siteRun.script = "generate-players" /\ siteRun.pc = "gate"
  /\ LET failures == {page.path : page \in
                        {q \in siteRun.pages : q.canonical # expectedCanonical(q.path)}}
     IN siteRun' = [siteRun EXCEPT !.failures = failures, !.pc = "done",
                      !.exit = IF failures = {} THEN <<0>> ELSE <<1>>]
  /\ UNCHANGED <<pipelineVars, slugRun, scoreRun, fetchRun, buildRun>>

SiteNext == PlayersStart \/ PlayerPage \/ GenerateSitemap \/ QualityGate

SiteSpec == SiteInit /\ [][SiteNext]_vars

\* the sitemap is written
SitemapWritten == siteRun.pc \in {"gate", "done"} /\ siteRun.sitemap # <<>>

C30_WitnessSkipped ==
  /\ siteRun.pc = "done" /\ siteRun.exit = <<0>>
  /\ Len(siteRun.players) = 2
  /\ playerId(siteRun.players[1]) = <<>>
  /\ playerId(siteRun.players[2]) = <<"7">>
  /\ Cardinality(siteRun.pages) = 1

====
